---- MODULE Spec2Model ----
(***************************************************************************)
(* A model of DeepDir's scan orchestration (core/scanner.py: DeepScanner)  *)
(* and of its result pipeline (modules/intelligent_filter.py:              *)
(* IntelligentFilter).                                                     *)
(*                                                                         *)
(* The specifications share the definitions below:                         *)
(*   Spec            main and DeepScanner.scan_targets / scan_target /     *)
(*                   _scan_url with the worker pool, the scan queue, the   *)
(*                   visited set and the monitor's counters;               *)
(*   FairSpec        Spec with its threads scheduled fairly;               *)
(*   CancelSpec      Spec with a KeyboardInterrupt in the main thread;     *)
(*   PipelineSpec    one IntelligentFilter object receiving a sequence of  *)
(*                   filter_results + prioritize_results calls;            *)
(*   PrioritizeSpec  IntelligentFilter.prioritize_results as a function;   *)
(*   MonitorSpec     RealtimeMonitor.update_stats called from two threads, *)
(*                   statement by statement, next to the monitor thread;   *)
(*   ConcurrentSpec  two threads inside IntelligentFilter.filter_results,  *)
(*                   statement by statement;                               *)
(*   CrawlerSpec     Crawler.scan called from two threads on the one       *)
(*                   crawler of the scanner, statement by statement;       *)
(*   SessionSpec     Spec with RealtimeMonitor.start_monitoring, the first *)
(*                   statement of _scan_url, taken statement by statement; *)
(*   CallbackSpec    update_stats on a monitor with registered callbacks.  *)
(***************************************************************************)
EXTENDS Naturals, Integers, Sequences, FiniteSets, TLC

(***************************************************************************)
(* Bounds of the model.                                                    *)
(***************************************************************************)
\* largest thread count (config.threads) a scan is configured with
MaxThreads == 2
\* largest recursion depth (config.max_depth) a scan is configured with
MaxDepthCfg == 2
\* longest batch handed to one filter_results call in PipelineSpec
MaxBatchLen == 2
\* number of filter_results calls made on the filter in PipelineSpec
MaxCalls == 2
\* longest list handed to prioritize_results in PrioritizeSpec
MaxSortLen == 2
\* number of update_stats calls made on the monitor in MonitorSpec
MaxUpdates == 3
\* number of Crawler.scan calls made on the crawler in CrawlerSpec
MaxCrawls == 3
\* number of callbacks registered with the monitor in CallbackSpec
MaxCallbacks == 2

(***************************************************************************)
(* Data: URLs, response bodies, results.                                   *)
(*                                                                         *)
(* A URL is kept in the parsed form urlparse gives (scheme, netloc, path). *)
(* A response body ("content") is a record of what the program observes of *)
(* it: `text` is the characters of the body that are not filler, `len` is  *)
(* len(content), `hrefs` are the values the href regex finds in it in      *)
(* order, and `marks` the phrases it contains that a filter looks for.     *)
(***************************************************************************)
Url(s, n, p) == [scheme |-> s, netloc |-> n, path |-> p]

Body(t, l, h, m) == [text |-> t, len |-> l, hrefs |-> h, marks |-> m]

Result(u, s, l, c) ==
    [url |-> u, status_code |-> s, content_length |-> l, content |-> c]

(***************************************************************************)
(* IntelligentFilter                                                       *)
(***************************************************************************)
\* str.lower() on one character of the model's alphabet
Lower(ch) ==
    CASE ch = "A" -> "a"
      [] ch = "B" -> "b"
      [] OTHER -> ch

\* \s of the regular expression: the whitespace characters of the alphabet
IsSpace(ch) == ch \in {" ", "\n", "\t"}

RECURSIVE Normalize(_)
\* re.sub(r'\s+', '', content.lower())
Normalize(t) ==
    IF t = << >> THEN << >>
    ELSE IF IsSpace(Lower(Head(t))) THEN Normalize(Tail(t))
         ELSE <<Lower(Head(t))>> \o Normalize(Tail(t))

\* _calculate_content_hash: md5 of the normalized body.  The digest is kept
\* as the normalized text itself (md5 taken as collision free).
calculate_content_hash(content) == Normalize(content.text)

\* _format_size: the size token, as <<number, unit>>
format_size(size) ==
    IF size < 1024 THEN <<size, "B">>
    ELSE IF size < 1024 * 1024 THEN <<size \div 1024, "KB">>
    ELSE <<size \div (1024 * 1024), "MB">>

\* _matches_size
matches_size(size_str, pattern) == size_str = pattern

\* _is_false_positive: one of the built-in soft-404 phrases occurs in the body
is_false_positive(content) == "false_positive" \in content.marks

\* is_interesting without line 64: the exclude list is not consulted
is_interesting_no_exclude(cfg, result) ==
    /\ ~(cfg.include_status_codes # {}
         /\ result.status_code \notin cfg.include_status_codes)
    /\ ~(cfg.min_response_size # 0
         /\ result.content_length < cfg.min_response_size)
    /\ ~(cfg.max_response_size # 0
         /\ result.content_length > cfg.max_response_size)
    /\ ~(\E excl \in cfg.exclude_sizes :
            matches_size(format_size(result.content_length), excl))
    /\ ~is_false_positive(result.content)
    /\ ~(\E excl_text \in cfg.exclude_text : excl_text \in result.content.marks)
    /\ ~(\E pattern \in cfg.exclude_regex : pattern \in result.content.marks)

\* is_interesting without lines 68-71: the size bounds are not consulted
is_interesting_no_size(cfg, result) ==
    /\ ~(cfg.include_status_codes # {}
         /\ result.status_code \notin cfg.include_status_codes)
    /\ result.status_code \notin cfg.exclude_status_codes
    /\ ~(\E excl \in cfg.exclude_sizes :
            matches_size(format_size(result.content_length), excl))
    /\ ~is_false_positive(result.content)
    /\ ~(\E excl_text \in cfg.exclude_text : excl_text \in result.content.marks)
    /\ ~(\E pattern \in cfg.exclude_regex : pattern \in result.content.marks)

\* _is_interesting.  An empty list and a zero size are falsy in Python: the
\* include filter and the size bounds apply only when they are set.
is_interesting(cfg, result) ==
    /\ ~(cfg.include_status_codes # {}
         /\ result.status_code \notin cfg.include_status_codes)
    /\ result.status_code \notin cfg.exclude_status_codes
    /\ ~(cfg.min_response_size # 0
         /\ result.content_length < cfg.min_response_size)
    /\ ~(cfg.max_response_size # 0
         /\ result.content_length > cfg.max_response_size)
    /\ ~(\E excl \in cfg.exclude_sizes :
            matches_size(format_size(result.content_length), excl))
    /\ ~is_false_positive(result.content)
    /\ ~(\E excl_text \in cfg.exclude_text : excl_text \in result.content.marks)
    /\ ~(\E pattern \in cfg.exclude_regex : pattern \in result.content.marks)

\* the first loop of filter_results: the results that are interesting, in order
interesting_of(cfg, results) ==
    SelectSeq(results, LAMBDA r : is_interesting(cfg, r))

RECURSIVE remove_duplicates_from(_, _)
remove_duplicates_from(results, seen) ==
    IF results = << >> THEN << >>
    ELSE LET result == Head(results)
             key == <<result.url, result.status_code>>
         IN IF key \notin seen
            THEN <<result>> \o remove_duplicates_from(Tail(results), seen \cup {key})
            ELSE remove_duplicates_from(Tail(results), seen)

\* _remove_duplicates: `seen` is a local of the call
remove_duplicates(results) == remove_duplicates_from(results, {})

\* _is_better_result
is_better_result(new_result, existing_result) ==
    LET new_status == new_result.status_code
        existing_status == existing_result.status_code
    IN IF new_status = 200 /\ existing_status # 200 THEN TRUE
       ELSE IF existing_status = 200 /\ new_status # 200 THEN FALSE
       ELSE new_status < existing_status

\* the inner for-loop of _remove_similar_responses: the first entry of
\* unique_results whose url is that of `existing` is overwritten by `result`
replace_first_url(unique_results, existing, result) ==
    LET hits == {i \in 1..Len(unique_results) :
                    unique_results[i].url = existing.url}
    IN IF hits = {} THEN unique_results
       ELSE LET i == CHOOSE j \in hits : \A k \in hits : j <= k
            IN [unique_results EXCEPT ![i] = result]

RECURSIVE remove_similar_from(_, _, _)
\* the loop of _remove_similar_responses over `results`, from the state
\* (response_cache, unique_results); the value is the state it ends in
remove_similar_from(results, cache, unique_results) ==
    IF results = << >> THEN [cache |-> cache, out |-> unique_results]
    ELSE LET result == Head(results)
             content_hash == calculate_content_hash(result.content)
         IN IF content_hash \notin DOMAIN cache
            THEN remove_similar_from(Tail(results),
                     (content_hash :> result) @@ cache,
                     Append(unique_results, result))
            ELSE LET existing == cache[content_hash]
                 IN IF is_better_result(result, existing)
                    THEN remove_similar_from(Tail(results),
                             (content_hash :> result) @@ cache,
                             replace_first_url(unique_results, existing, result))
                    ELSE remove_similar_from(Tail(results), cache, unique_results)

\* _remove_similar_responses on the filter's response_cache `cache`
remove_similar_responses(cache, results) ==
    remove_similar_from(results, cache, << >>)

\* filter_results: [cache |-> the response_cache after the call, out |-> the
\* list returned]
filter_results(cfg, cache, results) ==
    remove_similar_responses(cache, remove_duplicates(interesting_of(cfg, results)))

\* sort_key with the scores of 403 and 401 exchanged
sort_key_swapped(result) ==
    LET status_code == result.status_code
        content_length == result.content_length
        base == IF status_code = 200 THEN 0
                ELSE IF status_code \in {301, 302} THEN 1
                ELSE IF status_code = 403 THEN 3
                ELSE IF status_code = 401 THEN 2
                ELSE 10
        adj == IF content_length = 0 THEN 5
               ELSE IF content_length < 100 THEN 2
               ELSE IF content_length > 1000000 THEN 1
               ELSE 0
    IN base + adj

\* prioritize_results.sort_key
sort_key(result) ==
    LET status_code == result.status_code
        content_length == result.content_length
        base == IF status_code = 200 THEN 0
                ELSE IF status_code \in {301, 302} THEN 1
                ELSE IF status_code = 403 THEN 2
                ELSE IF status_code = 401 THEN 3
                ELSE 10
        adj == IF content_length = 0 THEN 5
               ELSE IF content_length < 100 THEN 2
               ELSE IF content_length > 1000000 THEN 1
               ELSE 0
    IN base + adj

\* where sorted() puts `r` in an already sorted list: after every entry whose
\* key is not greater (the sort is stable)
insert_sorted(sorted, r) ==
    LET n == Cardinality({i \in 1..Len(sorted) : sort_key(sorted[i]) <= sort_key(r)})
    IN SubSeq(sorted, 1, n) \o <<r>> \o SubSeq(sorted, n + 1, Len(sorted))

RECURSIVE sorted_from(_, _)
sorted_from(results, acc) ==
    IF results = << >> THEN acc
    ELSE sorted_from(Tail(results), insert_sorted(acc, Head(results)))

\* prioritize_results without the sort: the list is returned as it came
prioritize_results_unsorted(results) == results

\* prioritize_results: sorted(results, key=sort_key)
prioritize_results(results) == sorted_from(results, << >>)


(***************************************************************************)
(* DeepScanner                                                             *)
(***************************************************************************)
\* scan_target lines 90-92: a target without a scheme gets https://
normalize_target(target) ==
    IF target.scheme \notin {"http", "https"}
    THEN Url("https", target.netloc, target.path)
    ELSE target

\* _scan_url lines 163-175: result.update(analysis) writes the url, the
\* status code and len(content) of the body snippet over the result
analyze(result) ==
    [result EXCEPT !.content_length = result.content.len]

analyze_all(results) == [i \in 1..Len(results) |-> analyze(results[i])]

\* _should_recurse
should_recurse(cfg, result) == result.status_code \in cfg.recursion_status_codes

\* the directory part of a path, which urljoin resolves a relative
\* reference against; every path of the model has at most one segment
DirOf(path) == "/"

\* _extract_new_urls lines 205-211: the URL one href value stands for
resolve_href(base_url, match) ==
    CASE match.form = "rooted" ->
            Url(base_url.scheme, base_url.netloc, match.value)
      [] match.form = "absolute" -> match.value
      [] OTHER ->
            Url(base_url.scheme, base_url.netloc, DirOf(base_url.path) \o match.value)

\* _extract_new_urls without the test of line 215: every resolved href
extract_new_urls_any_netloc(result) ==
    LET matches == result.content.hrefs
    IN [i \in 1..Len(matches) |-> resolve_href(result.url, matches[i])]

\* _extract_new_urls: the hrefs of the body, resolved, same netloc only
extract_new_urls(result) ==
    LET matches == result.content.hrefs
        resolved == [i \in 1..Len(matches) |-> resolve_href(result.url, matches[i])]
    IN SelectSeq(resolved, LAMBDA new_url : new_url.netloc = result.url.netloc)

\* line 118 with <= for <: a Target at max_depth still recurses
may_recurse_off_by_one(cfg, depth) == cfg.recursive /\ depth <= cfg.max_depth

\* scan_target line 118: whether the results of a Target of this depth are
\* searched for new URLs
may_recurse(cfg, depth) == cfg.recursive /\ depth < cfg.max_depth

\* line 104 without its second test: the queue is emptied into the pool
\* whatever the number of futures
pool_has_room_unchecked(cfg, futs) == TRUE

\* scan_target line 104: len(futures) < self.config.threads
pool_has_room(cfg, futs) == Len(futs) < cfg.threads

RECURSIVE new_urls_of(_, _)
\* scan_target lines 119-122: the new_urls of every result to recurse on,
\* in the order the loops visit them
new_urls_of(cfg, scan_results) ==
    IF scan_results = << >> THEN << >>
    ELSE (IF should_recurse(cfg, Head(scan_results))
          THEN extract_new_urls(Head(scan_results)) ELSE << >>)
         \o new_urls_of(cfg, Tail(scan_results))

RECURSIVE enqueue_new(_, _, _, _)
\* scan_target lines 122-125 over the list `new_urls`: the value is the scan
\* queue, the visited set and the pairs that were put on the queue
enqueue_new(new_urls, depth, queue, visited) ==
    IF new_urls = << >> THEN [queue |-> queue, visited |-> visited, put |-> << >>]
    ELSE LET new_url == Head(new_urls)
         IN IF new_url \notin visited
            THEN LET rest == enqueue_new(Tail(new_urls), depth,
                                 Append(queue, <<new_url, depth + 1>>),
                                 visited \cup {new_url})
                 IN [rest EXCEPT !.put = <<<<new_url, depth + 1>>>> \o rest.put]
            ELSE enqueue_new(Tail(new_urls), depth, queue, visited)

(***************************************************************************)
(* The configurations (core/config.py: ScanConfig) the model runs under.   *)
(***************************************************************************)
\* ScanConfig.__post_init__: the default status-code lists
DefaultInclude == {200, 301, 302, 403}
DefaultExclude == {404, 429}
DefaultRecursion == {200, 301, 302, 403}

ScanConfig(inc, exc, mn, mx, rec, depth, threads) ==
    [include_status_codes |-> inc, exclude_status_codes |-> exc,
     min_response_size |-> mn, max_response_size |-> mx,
     exclude_sizes |-> {}, exclude_text |-> {}, exclude_regex |-> {},
     recursive |-> rec, max_depth |-> depth,
     recursion_status_codes |-> DefaultRecursion, threads |-> threads]

\* ScanConfig.recursion_status_codes set in the configuration
WithRecursionCodes(cfg, codes) == [cfg EXCEPT !.recursion_status_codes = codes]

\* the filter settings PipelineSpec draws from: the defaults, an include
\* list of one code, no include list with a minimum size, and with a maximum
PipelineConfigs ==
    {ScanConfig(DefaultInclude, DefaultExclude, 0, 0, FALSE, 0, 1),
     ScanConfig({200}, DefaultExclude, 0, 0, FALSE, 0, 1),
     ScanConfig({}, DefaultExclude, 100, 0, FALSE, 0, 1),
     ScanConfig({}, DefaultExclude, 0, 100, FALSE, 0, 1)}

(***************************************************************************)
(* The results the pipeline is fed.                                        *)
(***************************************************************************)
UrlP == Url("https", "t", "/p")
UrlQ == Url("https", "t", "/q")

\* two bodies that differ in case and whitespace only, and a third one
BodyA1 == Body(<<"A", " ">>, 500, << >>, {})
BodyA2 == Body(<<"a">>, 50, << >>, {})
BodyB == Body(<<"b">>, 500, << >>, {})

\* a classified result: content_length is len(content) (analyze_response)
Classified(u, s, c) == Result(u, s, c.len, c)

PipelineResults ==
    {Classified(UrlP, 403, BodyA1), Classified(UrlQ, 200, BodyA2),
     Classified(UrlP, 403, BodyB), Classified(UrlQ, 404, BodyB),
     Classified(UrlP, 301, BodyB)}

\* what prioritize_results is applied to in PrioritizeSpec: every status
\* class of sort_key with every length class and its neighbours
SortResults ==
    {Result(UrlP, s, l, BodyB) :
        s \in {200, 301, 302, 403, 401, 500},
        l \in {0, 1, 99, 100, 1000000, 1000001}}

\* the entries of a list, as a set
Elements(seq) == {seq[i] : i \in 1..Len(seq)}

SeqsUpTo(S, n) == UNION {[1..k -> S] : k \in 0..n}

\* every reordering of a list
Reorderings(seq) ==
    LET n == Len(seq)
        bijections == {f \in [1..n -> 1..n] : \A i, j \in 1..n : f[i] = f[j] => i = j}
    IN {[i \in 1..n |-> seq[f[i]]] : f \in bijections}

VARIABLES
    config,          \* DeepScanner.config / IntelligentFilter.config
    response_cache,  \* IntelligentFilter.response_cache: content hash -> result
    pipe_calls,      \* PipelineSpec: the number of filter_results calls made
    pipe_batch,      \* PipelineSpec: the argument of the last filter_results call
    pipe_prev_cache, \* PipelineSpec: response_cache before that call
    pipe_returned,   \* PipelineSpec: what prioritize_results returned for it
    pipe_output,     \* PipelineSpec: the returned lists so far, concatenated
    pipe_accepted,   \* PipelineSpec: the interesting results submitted so far
    sort_in,         \* PrioritizeSpec: the argument of prioritize_results
    sort_out,        \* PrioritizeSpec: its value
    sort_done,       \* PrioritizeSpec: whether it has been applied
    targets,         \* scan_targets: the targets not yet scanned
    all_results,     \* scan_targets: all_results
    pc,              \* where the thread running scan_targets is
    scan_queue,      \* scan_target: scan_queue, a FIFO of <<url, depth>>
    futures,         \* scan_target: futures, a list of [id, url, depth]
    workers,         \* the pool: future id -> [st, value] of its _scan_url call
    snapshot,        \* scan_target line 110: the copy futures[:] iterated over
    idx,             \* scan_target line 110: the position in that copy
    results,         \* scan_target: results
    visited_urls,    \* DeepScanner.visited_urls
    dequeued,        \* history: the <<url, depth>> pairs handed to _scan_url
    enqueued,        \* history: what was put on scan_queue, and from which future
    args,            \* main: the parsed command line, [url, url_list]
    stats,           \* RealtimeMonitor.stats: the counters of the scan
    net_errors,      \* history: the probe requests that ended in a network error
    cancelled,       \* whether KeyboardInterrupt was raised in the main thread
    cancel_mark,     \* history: Len(dequeued) and scan_queue when it was raised
    mon_lock,        \* RealtimeMonitor.lock: 0, or the thread that holds it
    mon_pc,          \* MonitorSpec: where each thread is in update_stats
    mon_call,        \* MonitorSpec: the keyword and value of each thread's call
    mon_tmp,         \* MonitorSpec: the counter value a thread has loaded
    mon_started,     \* MonitorSpec: the number of update_stats calls made
    mon_sum,         \* history: per counter, the sum of the deltas passed
    mon_values,      \* history: the values passed for the field end_time
    conc_batch,      \* ConcurrentSpec: the batch each thread's filter_results got
    conc_list,       \* ConcurrentSpec: each thread's list after _remove_duplicates
    conc_pos,        \* ConcurrentSpec: each thread's position in that list
    conc_pc,         \* ConcurrentSpec: where each thread is in filter_results
    conc_existing,   \* ConcurrentSpec: each thread's local `existing`
    conc_unique,     \* ConcurrentSpec: each thread's local unique_results
    crawl_visited,   \* Crawler.visited
    crawl_pc,        \* CrawlerSpec: where each thread is in Crawler.scan
    crawl_base,      \* CrawlerSpec: the base_url of each thread's call
    crawl_to_visit,  \* CrawlerSpec: each thread's local to_visit
    crawl_current,   \* CrawlerSpec: each thread's local current_url
    crawl_results,   \* CrawlerSpec: each thread's local results (the URLs)
    crawl_calls,     \* CrawlerSpec: the number of Crawler.scan calls made
    is_monitoring,   \* RealtimeMonitor.is_monitoring
    start_pc,        \* SessionSpec: where each _scan_url call is in start_monitoring
    monitor_threads, \* history: the number of monitor threads started
    start_writes,    \* history: the number of times stats['start_time'] was set
    callbacks,       \* RealtimeMonitor.callbacks: what each callback does
    cb_pos,          \* CallbackSpec: each thread's position in _notify_callbacks
    cb_nested        \* CallbackSpec: whether the thread is inside a callback

pipe_vars ==
    <<pipe_calls, pipe_batch, pipe_prev_cache, pipe_returned, pipe_output, pipe_accepted>>

sort_vars == <<sort_in, sort_out, sort_done>>

\* what only _scan_url writes, and what only an interrupt writes
stat_vars == <<stats, net_errors>>

cancel_vars == <<cancelled, cancel_mark>>

mon_vars == <<mon_lock, mon_pc, mon_call, mon_tmp, mon_started, mon_sum, mon_values>>

conc_vars == <<conc_batch, conc_list, conc_pos, conc_pc, conc_existing, conc_unique>>

scan_vars ==
    <<targets, all_results, pc, scan_queue, futures, workers, snapshot, idx,
      results, visited_urls, dequeued, enqueued, args, stat_vars, cancel_vars>>

crawl_vars ==
    <<crawl_visited, crawl_pc, crawl_base, crawl_to_visit, crawl_current,
      crawl_results, crawl_calls>>

session_vars == <<is_monitoring, start_pc, monitor_threads, start_writes>>

cb_vars == <<callbacks, cb_pos, cb_nested>>

vars ==
    <<config, response_cache, pipe_vars, sort_vars, scan_vars, mon_vars, conc_vars,
      crawl_vars, session_vars, cb_vars>>

\* IntelligentFilter.__init__: response_cache = {}
EmptyCache == << >>

\* an option of the command line is a list: empty when the option was not
\* given (argparse's None), else holding its value
NoArg == << >>

Arg(v) == <<v>>

\* RealtimeMonitor.__init__: the stats dictionary (its counters and the one
\* field that is not a number)
InitStats ==
    [start_time |-> "None", end_time |-> "None", total_requests |-> 0,
     successful_requests |-> 0, failed_requests |-> 0, found_paths |-> 0,
     elapsed_time |-> 0]

\* the threads of the pool that MonitorSpec and ConcurrentSpec run
Threads == {"w1", "w2"}

\* the counters of the stats dictionary
CounterKeys == {"total_requests", "successful_requests", "failed_requests", "found_paths"}

\* a thread that is not in update_stats
NoCall == [key |-> "", numeric |-> TRUE, delta |-> 0, value |-> ""]

\* RealtimeMonitor.__init__ (the lock is free), no thread in update_stats
MonIdle ==
    /\ mon_lock = "free"
    /\ mon_pc = [t \in Threads |-> "idle"]
    /\ mon_call = [t \in Threads |-> NoCall]
    /\ mon_tmp = [t \in Threads |-> 0]
    /\ mon_started = 0
    /\ mon_sum = [k \in CounterKeys |-> 0]
    /\ mon_values = {}

\* no thread in filter_results
ConcIdle ==
    /\ conc_batch = [t \in Threads |-> << >>]
    /\ conc_list = [t \in Threads |-> << >>]
    /\ conc_pos = [t \in Threads |-> 1]
    /\ conc_pc = [t \in Threads |-> "idle"]
    /\ conc_existing = [t \in Threads |-> << >>]
    /\ conc_unique = [t \in Threads |-> << >>]

\* Crawler.__init__ (visited = set()), no thread in Crawler.scan
CrawlIdle ==
    /\ crawl_visited = {}
    /\ crawl_pc = [t \in Threads |-> "idle"]
    /\ crawl_base = [t \in Threads |-> << >>]
    /\ crawl_to_visit = [t \in Threads |-> << >>]
    /\ crawl_current = [t \in Threads |-> << >>]
    /\ crawl_results = [t \in Threads |-> << >>]
    /\ crawl_calls = 0

\* RealtimeMonitor.__init__ (is_monitoring = False), no call of
\* start_monitoring made
SessionIdle ==
    /\ is_monitoring = FALSE
    /\ start_pc = << >>
    /\ monitor_threads = 0
    /\ start_writes = 0

\* RealtimeMonitor.__init__ (callbacks = []), no thread in _notify_callbacks
CallbackIdle ==
    /\ callbacks = << >>
    /\ cb_pos = [t \in Threads |-> 1]
    /\ cb_nested = [t \in Threads |-> FALSE]

\* no interrupt has been raised
NoMark == [dequeued |-> 0, queue |-> << >>, running |-> {}]

PipeIdle ==
    /\ pipe_calls = 0
    /\ pipe_batch = << >>
    /\ pipe_prev_cache = EmptyCache
    /\ pipe_returned = << >>
    /\ pipe_output = << >>
    /\ pipe_accepted = {}

SortIdle ==
    /\ sort_in = << >>
    /\ sort_out = << >>
    /\ sort_done = FALSE

\* a future whose _scan_url call has not ended
Running == [st |-> "running", value |-> << >>, raw |-> << >>, classified |-> << >>, bad |-> 0]

\* DeepScanner.__init__, before scan_targets is called
ScanIdle ==
    /\ targets = << >>
    /\ all_results = << >>
    /\ pc = "idle"
    /\ scan_queue = << >>
    /\ futures = << >>
    /\ workers = << >>
    /\ snapshot = << >>
    /\ idx = 1
    /\ results = << >>
    /\ visited_urls = {}
    /\ dequeued = << >>
    /\ enqueued = << >>
    /\ args = [url |-> NoArg, url_list |-> NoArg]
    /\ stats = InitStats
    /\ net_errors = 0
    /\ cancelled = FALSE
    /\ cancel_mark = NoMark

(***************************************************************************)
(* PipelineSpec: one IntelligentFilter, called once per processed Target.  *)
(***************************************************************************)
PipelineInit ==
    /\ config \in PipelineConfigs
    /\ response_cache = EmptyCache
    /\ PipeIdle
    /\ SortIdle
    /\ ScanIdle
    /\ MonIdle
    /\ ConcIdle
    /\ CrawlIdle
    /\ SessionIdle
    /\ CallbackIdle

\* _scan_url lines 177-184 on one batch of classified results
Submit(batch) ==
    LET filtered == filter_results(config, response_cache, batch)
        returned == prioritize_results(filtered.out)
    IN /\ pipe_calls < MaxCalls
       /\ pipe_calls' = pipe_calls + 1
       /\ response_cache' = filtered.cache
       /\ pipe_batch' = batch
       /\ pipe_prev_cache' = response_cache
       /\ pipe_returned' = returned
       /\ pipe_output' = pipe_output \o returned
       /\ pipe_accepted' = pipe_accepted \cup
              {batch[i] : i \in {j \in 1..Len(batch) : is_interesting(config, batch[j])}}
       /\ UNCHANGED <<config, crawl_vars, session_vars, cb_vars, sort_vars, scan_vars, mon_vars, conc_vars>>

PipelineNext == \E batch \in SeqsUpTo(PipelineResults, MaxBatchLen) : Submit(batch)

PipelineSpec == PipelineInit /\ [][PipelineNext]_vars

(***************************************************************************)
(* PrioritizeSpec: prioritize_results applied to one list.                 *)
(***************************************************************************)
PrioritizeInit ==
    /\ config \in {ScanConfig(DefaultInclude, DefaultExclude, 0, 0, FALSE, 0, 1)}
    /\ response_cache = EmptyCache
    /\ PipeIdle
    /\ sort_in \in SeqsUpTo(SortResults, MaxSortLen)
    /\ sort_out = << >>
    /\ sort_done = FALSE
    /\ ScanIdle
    /\ MonIdle
    /\ ConcIdle
    /\ CrawlIdle
    /\ SessionIdle
    /\ CallbackIdle

Prioritize ==
    /\ ~sort_done
    /\ sort_out' = prioritize_results(sort_in)
    /\ sort_done' = TRUE
    /\ UNCHANGED <<config, crawl_vars, session_vars, cb_vars, response_cache, pipe_vars, scan_vars, mon_vars,
                   conc_vars, sort_in>>

PrioritizeNext == Prioritize

PrioritizeSpec == PrioritizeInit /\ [][PrioritizeNext]_vars

(***************************************************************************)
(* Spec: DeepScanner.scan_targets on a site.                               *)
(*                                                                         *)
(* The site: what the probes of _scan_url find under each URL.  A request  *)
(* that fails gives no result (BruteForcer._make_request returns None), so *)
(* a scan of a URL returns any sub-list of what is there.                  *)
(***************************************************************************)
Seed == Url("https", "t", "")
UrlA == Url("https", "t", "/a")
UrlB == Url("https", "t", "/b")
UrlC == Url("https", "t", "/c")
UrlX == Url("https", "x", "/e")

Href(f, v) == [form |-> f, value |-> v]

\* the bodies of the site, with the links they hold
BodyS == Body(<<"s">>, 600, <<Href("rooted", "/a"), Href("absolute", Seed)>>, {})
BodyT == Body(<<"T", "\n">>, 700, <<Href("relative", "b")>>, {})
BodyU == Body(<<"u">>, 40, <<Href("rooted", "/c"), Href("absolute", UrlX)>>, {})
BodyV == Body(<<"t">>, 800, <<Href("rooted", "/a")>>, {})
BodyN == Body(<<"n">>, 90, << >>, {})

\* the raw results a probe of each URL can return: content_length is the
\* size of the whole response, content the snippet kept of it
Site(url) ==
    CASE url = Seed -> <<Result(UrlP, 403, 5000, BodyS), Result(UrlQ, 404, 90, BodyN)>>
      [] url = UrlA -> <<Result(UrlQ, 200, 700, BodyT)>>
      [] url = UrlB -> <<Result(UrlP, 301, 40, BodyU)>>
      [] url = UrlC -> <<Result(UrlQ, 200, 800, BodyV)>>
      [] OTHER -> << >>

\* every sub-list of a list
SubLists(seq) ==
    {SelectSeq([i \in 1..Len(seq) |-> <<i, seq[i]>>], LAMBDA e : e[1] \in keep) :
        keep \in SUBSET (1..Len(seq))}

Second(pairs) == [i \in 1..Len(pairs) |-> pairs[i][2]]

ProbeResults(url) == {Second(sub) : sub \in SubLists(Site(url))}

\* the configurations a scan runs under: the default filters, recursion off
\* or on with each depth, each thread count; a recursive scan that was
\* given an include list of its own (-i 200); and one that recurses on
\* redirects only
ScanConfigs ==
    {ScanConfig(DefaultInclude, DefaultExclude, 0, 0, rec, depth, threads) :
        rec \in BOOLEAN, depth \in 0..MaxDepthCfg, threads \in 1..MaxThreads}
    \cup {ScanConfig({200}, DefaultExclude, 0, 0, TRUE, depth, 1) :
            depth \in 1..MaxDepthCfg}
    \cup {WithRecursionCodes(
              ScanConfig(DefaultInclude, DefaultExclude, 0, 0, TRUE, depth, 1), {301}) :
            depth \in 1..MaxDepthCfg}

\* the target lists given to scan_targets: one target with and without a
\* scheme, and two targets of one site
TargetLists == {<<Seed>>, <<Url("", "t", "")>>, <<UrlB, Seed>>}

\* the command lines main is run with: -u alone, -u with a -l file holding
\* the other targets, a -l file without a line, and neither option
CliArgs ==
    {[url |-> Arg(Head(t)), url_list |-> IF Len(t) = 1 THEN NoArg ELSE Arg(Tail(t))] :
        t \in TargetLists}
    \cup {[url |-> NoArg, url_list |-> Arg(<< >>)], [url |-> NoArg, url_list |-> NoArg]}

Init ==
    /\ config \in ScanConfigs
    /\ response_cache = EmptyCache
    /\ PipeIdle
    /\ SortIdle
    /\ MonIdle
    /\ ConcIdle
    /\ CrawlIdle
    /\ SessionIdle
    /\ CallbackIdle
    /\ args \in CliArgs
    /\ targets = << >>
    /\ all_results = << >>
    /\ pc = "main"
    /\ scan_queue = << >>
    /\ futures = << >>
    /\ workers = << >>
    /\ snapshot = << >>
    /\ idx = 1
    /\ results = << >>
    /\ visited_urls = {}
    /\ dequeued = << >>
    /\ enqueued = << >>
    /\ stats = InitStats
    /\ net_errors = 0
    /\ cancelled = FALSE
    /\ cancel_mark = NoMark

\* main lines 93-95: without -u and without -l the parser reports the error
\* and the process exits
ParserError ==
    /\ pc = "main"
    /\ args.url = NoArg /\ args.url_list = NoArg
    /\ pc' = "config_error"
    /\ UNCHANGED <<config, crawl_vars, session_vars, cb_vars, response_cache, pipe_vars, sort_vars, mon_vars, conc_vars, args,
                   stat_vars, cancel_vars, targets, all_results, scan_queue,
                   futures, workers, snapshot, idx, results, visited_urls,
                   dequeued, enqueued>>

\* main lines 104-110: the targets are the -u value and the lines of the -l
\* file
load_targets(a) ==
    (IF a.url # NoArg THEN <<a.url[1]>> ELSE << >>)
        \o (IF a.url_list # NoArg THEN a.url_list[1] ELSE << >>)

\* main lines 97-113: the scanner is made and scan_targets is called
LoadTargets ==
    /\ pc = "main"
    /\ ~(args.url = NoArg /\ args.url_list = NoArg)
    /\ targets' = load_targets(args)
    /\ pc' = "next_target"
    /\ UNCHANGED <<config, crawl_vars, session_vars, cb_vars, response_cache, pipe_vars, sort_vars, mon_vars, conc_vars, args,
                   stat_vars, cancel_vars, all_results, scan_queue, futures,
                   workers, snapshot, idx, results, visited_urls, dequeued,
                   enqueued>>

\* scan_targets line 79-81 and scan_target lines 88-99: the next target is
\* normalized and seeds a fresh queue
StartTarget ==
    /\ pc = "next_target"
    /\ targets # << >>
    /\ LET target == normalize_target(Head(targets))
       IN /\ scan_queue' = <<<<target, 0>>>>
          /\ enqueued' = <<[url |-> target, depth |-> 0, seed |-> TRUE,
                            parent |-> 0, parent_depth |-> 0]>>
    /\ results' = << >>
    /\ futures' = << >>
    /\ workers' = << >>
    /\ dequeued' = << >>
    /\ pc' = "loop"
    /\ UNCHANGED <<config, crawl_vars, session_vars, cb_vars, response_cache, pipe_vars, sort_vars, mon_vars, conc_vars, args,
                   stat_vars, cancel_vars, targets,
                   all_results, snapshot, idx, visited_urls>>

\* scan_targets line 84: every target is scanned
ReturnAll ==
    /\ pc = "next_target"
    /\ targets = << >>
    /\ pc' = "done"
    /\ UNCHANGED <<config, crawl_vars, session_vars, cb_vars, response_cache, pipe_vars, sort_vars, mon_vars, conc_vars, args,
                   stat_vars, cancel_vars, targets,
                   all_results, scan_queue, futures, workers, snapshot, idx,
                   results, visited_urls, dequeued, enqueued>>

\* line 102 without `or futures`: the loop ends as soon as the queue is
\* empty
LoopTest_queue_only ==
    /\ pc = "loop"
    /\ IF scan_queue # << >>
       THEN /\ pc' = "submit"
            /\ UNCHANGED <<targets, all_results>>
       ELSE /\ pc' = "next_target"
            /\ all_results' = all_results \o results
            /\ targets' = Tail(targets)
    /\ UNCHANGED <<config, crawl_vars, session_vars, cb_vars, response_cache, pipe_vars, sort_vars, mon_vars, conc_vars, args,
                   stat_vars, cancel_vars, scan_queue,
                   futures, workers, snapshot, idx, results, visited_urls,
                   dequeued, enqueued>>

\* scan_target line 102, and line 132 with scan_targets line 82 when the
\* loop ends
LoopTest ==
    /\ pc = "loop"
    /\ IF scan_queue # << >> \/ futures # << >>
       THEN /\ pc' = "submit"
            /\ UNCHANGED <<targets, all_results>>
       ELSE /\ pc' = "next_target"
            /\ all_results' = all_results \o results
            /\ targets' = Tail(targets)
    /\ UNCHANGED <<config, crawl_vars, session_vars, cb_vars, response_cache, pipe_vars, sort_vars, mon_vars, conc_vars, args,
                   stat_vars, cancel_vars, scan_queue,
                   futures, workers, snapshot, idx, results, visited_urls,
                   dequeued, enqueued>>

\* lines 105-107 with the head of the queue read but left on the queue
SubmitTask_keeps_queue ==
    /\ pc = "submit"
    /\ scan_queue # << >>
    /\ pool_has_room(config, futures)
    /\ LET url == Head(scan_queue)[1]
           depth == Head(scan_queue)[2]
           id == Len(dequeued) + 1
       IN /\ futures' = Append(futures, [id |-> id, url |-> url, depth |-> depth])
          /\ workers' = (id :> Running) @@ workers
          /\ dequeued' = Append(dequeued, <<url, depth>>)
    /\ UNCHANGED <<config, crawl_vars, session_vars, cb_vars, response_cache, pipe_vars, sort_vars, mon_vars, conc_vars, args,
                   stat_vars, cancel_vars, targets, scan_queue,
                   all_results, pc, snapshot, idx, results, visited_urls, enqueued>>

\* scan_target lines 104-107: one URL is taken off the queue and submitted
SubmitTask ==
    /\ pc = "submit"
    /\ scan_queue # << >>
    /\ pool_has_room(config, futures)
    /\ LET url == Head(scan_queue)[1]
           depth == Head(scan_queue)[2]
           id == Len(dequeued) + 1
       IN /\ futures' = Append(futures, [id |-> id, url |-> url, depth |-> depth])
          /\ workers' = (id :> Running) @@ workers
          /\ dequeued' = Append(dequeued, <<url, depth>>)
    /\ scan_queue' = Tail(scan_queue)
    /\ UNCHANGED <<config, crawl_vars, session_vars, cb_vars, response_cache, pipe_vars, sort_vars, mon_vars, conc_vars, args,
                   stat_vars, cancel_vars, targets,
                   all_results, pc, snapshot, idx, results, visited_urls, enqueued>>

\* scan_target line 104 false, line 110: the pass over a copy of futures
StartCollect ==
    /\ pc = "submit"
    /\ ~(scan_queue # << >> /\ pool_has_room(config, futures))
    /\ snapshot' = futures
    /\ idx' = 1
    /\ pc' = "collect"
    /\ UNCHANGED <<config, crawl_vars, session_vars, cb_vars, response_cache, pipe_vars, sort_vars, mon_vars, conc_vars, args,
                   stat_vars, cancel_vars, targets,
                   all_results, scan_queue, futures, workers, results,
                   visited_urls, dequeued, enqueued>>

\* scan_target line 111 false: the future is still running
SkipRunning ==
    /\ pc = "collect"
    /\ idx <= Len(snapshot)
    /\ workers[snapshot[idx].id].st = "running"
    /\ idx' = idx + 1
    /\ UNCHANGED <<config, crawl_vars, session_vars, cb_vars, response_cache, pipe_vars, sort_vars, mon_vars, conc_vars, args,
                   stat_vars, cancel_vars, targets,
                   all_results, pc, scan_queue, futures, workers, snapshot,
                   results, visited_urls, dequeued, enqueued>>

\* scan_target lines 111-125: a finished future is removed, its results are
\* appended and, when recursing, the new URLs of its results are enqueued
CollectDone ==
    /\ pc = "collect"
    /\ idx <= Len(snapshot)
    /\ workers[snapshot[idx].id].st = "done"
    /\ LET f == snapshot[idx]
           scan_results == workers[f.id].value
           new == IF may_recurse(config, f.depth)
                  THEN enqueue_new(new_urls_of(config, scan_results), f.depth,
                                   scan_queue, visited_urls)
                  ELSE [queue |-> scan_queue, visited |-> visited_urls, put |-> << >>]
       IN /\ futures' = SelectSeq(futures, LAMBDA g : g # f)
          /\ results' = results \o scan_results
          /\ scan_queue' = new.queue
          /\ visited_urls' = new.visited
          /\ enqueued' = enqueued \o
                [i \in 1..Len(new.put) |->
                    [url |-> new.put[i][1], depth |-> new.put[i][2],
                     seed |-> FALSE, parent |-> f.id, parent_depth |-> f.depth]]
    /\ idx' = idx + 1
    /\ UNCHANGED <<config, crawl_vars, session_vars, cb_vars, response_cache, pipe_vars, sort_vars, mon_vars, conc_vars, args,
                   stat_vars, cancel_vars, targets,
                   all_results, pc, workers, snapshot, dequeued>>

\* lines 111-114 without the handler of lines 127-128: the exception of
\* future.result() leaves scan_target and scan_targets
CollectRaised_aborts ==
    /\ pc = "collect"
    /\ idx <= Len(snapshot)
    /\ workers[snapshot[idx].id].st = "raised"
    /\ futures' = SelectSeq(futures, LAMBDA g : g # snapshot[idx])
    /\ pc' = "done"
    /\ UNCHANGED <<config, crawl_vars, session_vars, cb_vars, response_cache, pipe_vars, sort_vars, mon_vars, conc_vars, args,
                   stat_vars, cancel_vars, targets, all_results, scan_queue,
                   workers, snapshot, idx, results, visited_urls, dequeued,
                   enqueued>>

\* scan_target lines 111-114, 127-128: future.result() raises, the error
\* is logged
CollectRaised ==
    /\ pc = "collect"
    /\ idx <= Len(snapshot)
    /\ workers[snapshot[idx].id].st = "raised"
    /\ futures' = SelectSeq(futures, LAMBDA g : g # snapshot[idx])
    /\ idx' = idx + 1
    /\ UNCHANGED <<config, crawl_vars, session_vars, cb_vars, response_cache, pipe_vars, sort_vars, mon_vars, conc_vars, args,
                   stat_vars, cancel_vars, targets,
                   all_results, pc, scan_queue, workers, snapshot, results,
                   visited_urls, dequeued, enqueued>>

\* scan_target line 130: the pass is over, the loop condition is next
EndCollect ==
    /\ pc = "collect"
    /\ idx > Len(snapshot)
    /\ pc' = "loop"
    /\ UNCHANGED <<config, crawl_vars, session_vars, cb_vars, response_cache, pipe_vars, sort_vars, mon_vars, conc_vars, args,
                   stat_vars, cancel_vars, targets,
                   all_results, scan_queue, futures, workers, snapshot, idx,
                   results, visited_urls, dequeued, enqueued>>

\* RealtimeMonitor.start_monitoring lines 37-41: the first call sets the
\* start time
start_monitoring(st) ==
    IF st.start_time = "None" THEN [st EXCEPT !.start_time = "now"] ELSE st

\* RealtimeMonitor._calculate_derived_stats: once the start time is set the
\* time elapsed since is stored (1 stands for a reading of the clock); the
\* counters are read only
calculate_derived_stats(st) ==
    IF st.start_time # "None" THEN [st EXCEPT !.elapsed_time = 1] ELSE st

\* RealtimeMonitor.update_stats with one keyword whose value is a number,
\* as one step
update_stats(st, key, value) ==
    calculate_derived_stats([st EXCEPT ![key] = @ + value])

\* _scan_url lines 139-161: what the probes of `url` that returned `raw`
\* leave in the monitor's stats.  Only the results that came back are
\* counted (as total_requests); no statement counts a request that failed.
stats_after_probes(st, raw) ==
    update_stats(start_monitoring(st), "total_requests", Len(raw))

\* the probe requests of `url` that did not come back with a response
\* (_make_request line 109-111 returned None), when `raw` is what came back
failed_probes(url, raw) == Len(Site(url)) - Len(raw)

\* _scan_url in a pool thread: the probes return `raw`, the results are
\* analysed, filtered against the shared response_cache and prioritized.
\* The call is one step: the steps of two threads inside filter_results are
\* not interleaved here.
WorkerReturn(id, raw) ==
    /\ workers[id].st = "running"
    /\ LET classified == analyze_all(raw)
           filtered == filter_results(config, response_cache, classified)
           returned == prioritize_results(filtered.out)
       IN /\ response_cache' = filtered.cache
          /\ workers' = [workers EXCEPT
                ![id] = [st |-> "done", value |-> returned, raw |-> raw,
                         classified |-> classified, bad |-> 0]]
          /\ stats' = update_stats(stats_after_probes(stats, raw),
                                   "found_paths", Len(returned))
    /\ net_errors' = net_errors + failed_probes(dequeued[id][1], raw)
    /\ UNCHANGED <<config, crawl_vars, session_vars, cb_vars, pipe_vars, sort_vars, mon_vars, conc_vars, args, cancel_vars, targets,
                   all_results, pc, scan_queue, futures, snapshot, idx, results,
                   visited_urls, dequeued, enqueued>>

\* _scan_url lines 164-175 when analyze_response raises on the result at
\* position `bad` of `raw`: nothing in the loop catches it, the call ends
\* with the exception and returns nothing
WorkerClassifyRaise(id, raw, bad) ==
    /\ workers[id].st = "running"
    /\ bad \in 1..Len(raw)
    /\ workers' = [workers EXCEPT
          ![id] = [st |-> "raised", value |-> << >>, raw |-> raw,
                   classified |-> << >>, bad |-> bad]]
    /\ stats' = stats_after_probes(stats, raw)
    /\ net_errors' = net_errors + failed_probes(dequeued[id][1], raw)
    /\ UNCHANGED <<config, crawl_vars, session_vars, cb_vars, response_cache, pipe_vars, sort_vars, mon_vars, conc_vars, args,
                   cancel_vars, targets, all_results, pc, scan_queue, futures,
                   snapshot, idx, results, visited_urls, dequeued, enqueued>>

\* _scan_url raises before any probe result is in (an error of a probe
\* that is not a RequestException)
WorkerRaise(id) ==
    /\ workers[id].st = "running"
    /\ workers' = [workers EXCEPT
          ![id] = [st |-> "raised", value |-> << >>, raw |-> << >>,
                   classified |-> << >>, bad |-> 0]]
    /\ stats' = start_monitoring(stats)
    /\ UNCHANGED <<config, crawl_vars, session_vars, cb_vars, response_cache, pipe_vars, sort_vars, mon_vars, conc_vars, args,
                   net_errors, cancel_vars, targets, all_results, pc, scan_queue,
                   futures, snapshot, idx, results, visited_urls, dequeued,
                   enqueued>>

\* a pool thread finishes the _scan_url call of one of the futures
Work == \E f \in Elements(futures) : \E raw \in ProbeResults(f.url) : WorkerReturn(f.id, raw)

ClassifyFail ==
    \E f \in Elements(futures) : \E raw \in ProbeResults(f.url) :
        \E bad \in 1..Len(raw) : WorkerClassifyRaise(f.id, raw, bad)

Fail == \E f \in Elements(futures) : WorkerRaise(f.id)

Next ==
    \/ ParserError
    \/ LoadTargets
    \/ StartTarget
    \/ ReturnAll
    \/ LoopTest
    \/ SubmitTask
    \/ StartCollect
    \/ SkipRunning
    \/ CollectDone
    \/ CollectRaised
    \/ EndCollect
    \/ Work
    \/ ClassifyFail
    \/ Fail

Spec == Init /\ [][Next]_vars

(***************************************************************************)
(* FairSpec: the scan with its threads running.  The main thread goes on   *)
(* as long as it has a step to take (the loop of scan_target polls and     *)
(* sleeps, it never waits for anything), and a _scan_url call that was     *)
(* submitted ends, by returning or by raising.                             *)
(***************************************************************************)
\* a step of the thread that runs main, scan_targets and scan_target
MainThread ==
    \/ ParserError
    \/ LoadTargets
    \/ StartTarget
    \/ ReturnAll
    \/ LoopTest
    \/ SubmitTask
    \/ StartCollect
    \/ SkipRunning
    \/ CollectDone
    \/ CollectRaised
    \/ EndCollect

\* a step of a pool thread: one of the submitted _scan_url calls ends
PoolThreads == Work \/ ClassifyFail \/ Fail

FairSpec == Spec /\ WF_vars(MainThread) /\ WF_vars(PoolThreads)

(***************************************************************************)
(* CancelSpec: the scan with a KeyboardInterrupt raised in the main thread *)
(* at any point of scan_targets.                                           *)
(***************************************************************************)
\* the futures whose _scan_url call has not ended
RunningIds == {f.id : f \in {g \in Elements(futures) : workers[g.id].st = "running"}}

\* KeyboardInterrupt caught as line 127 catches an Exception: the loop of
\* scan_target goes on
Interrupt_swallowed ==
    /\ pc \in {"next_target", "loop", "submit", "collect"}
    /\ ~cancelled
    /\ cancelled' = TRUE
    /\ cancel_mark' = [dequeued |-> Len(dequeued), queue |-> scan_queue,
                       running |-> RunningIds]
    /\ UNCHANGED <<config, crawl_vars, session_vars, cb_vars, response_cache, pipe_vars, sort_vars, mon_vars, conc_vars, args,
                   stat_vars, targets, all_results, pc, scan_queue, futures,
                   workers, snapshot, idx, results, visited_urls, dequeued,
                   enqueued>>

\* KeyboardInterrupt in the main thread while it is in scan_targets: no
\* handler of scan_target or scan_targets catches it (line 127 catches
\* Exception only), so it leaves the loop; inside the with-block of line 99
\* the executor is shut down first
Interrupt ==
    /\ pc \in {"next_target", "loop", "submit", "collect"}
    /\ ~cancelled
    /\ cancelled' = TRUE
    /\ cancel_mark' = [dequeued |-> Len(dequeued), queue |-> scan_queue,
                       running |-> RunningIds]
    /\ pc' = IF pc = "next_target" THEN "interrupted" ELSE "shutdown"
    /\ UNCHANGED <<config, crawl_vars, session_vars, cb_vars, response_cache, pipe_vars, sort_vars, mon_vars, conc_vars, args,
                   stat_vars, targets, all_results, scan_queue, futures,
                   workers, snapshot, idx, results, visited_urls, dequeued,
                   enqueued>>

\* ThreadPoolExecutor.__exit__ (shutdown(wait=True)) returns when every
\* submitted call has ended; the interrupt then reaches main lines 118-119
ExecutorExit ==
    /\ pc = "shutdown"
    /\ RunningIds = {}
    /\ pc' = "interrupted"
    /\ UNCHANGED <<config, crawl_vars, session_vars, cb_vars, response_cache, pipe_vars, sort_vars, mon_vars, conc_vars, args,
                   stat_vars, cancel_vars, targets, all_results, scan_queue,
                   futures, workers, snapshot, idx, results, visited_urls,
                   dequeued, enqueued>>

CancelNext ==
    \/ ParserError
    \/ LoadTargets
    \/ StartTarget
    \/ ReturnAll
    \/ LoopTest
    \/ SubmitTask
    \/ StartCollect
    \/ SkipRunning
    \/ CollectDone
    \/ CollectRaised
    \/ EndCollect
    \/ Work
    \/ ClassifyFail
    \/ Fail
    \/ Interrupt
    \/ ExecutorExit

CancelSpec == Init /\ [][CancelNext]_vars

(***************************************************************************)
(* SessionSpec: the scan with the first statement of _scan_url, the call   *)
(* of RealtimeMonitor.start_monitoring (line 139), taken statement by      *)
(* statement in each pool thread.  The method has no lock.  The probes of  *)
(* a call begin when its start_monitoring call has returned.               *)
(***************************************************************************)
\* the _scan_url call of future `id` of the current scan_target
CallKey(id) == <<Len(targets), id>>

\* the calls that have not reached line 139 yet
NotStarted == {id \in DOMAIN workers : CallKey(id) \notin DOMAIN start_pc}

\* the calls whose start_monitoring call has returned
Started ==
    {id \in DOMAIN workers :
        CallKey(id) \in DOMAIN start_pc /\ start_pc[CallKey(id)] = "returned"}

\* start_monitoring without lines 37-38: every call goes on to line 40
TestMonitoring_always_starts(id) ==
    /\ id \in NotStarted
    /\ start_pc' = (CallKey(id) :> "set_flag") @@ start_pc
    /\ UNCHANGED <<config, crawl_vars, cb_vars, response_cache, pipe_vars, sort_vars, mon_vars,
                   conc_vars, args, cancel_vars, targets, all_results, pc,
                   scan_queue, futures, workers, snapshot, idx, results,
                   visited_urls, dequeued, enqueued, net_errors, stats, is_monitoring, monitor_threads, start_writes>>

\* start_monitoring lines 37-38: a call that finds is_monitoring set returns
TestMonitoring(id) ==
    /\ id \in NotStarted
    /\ start_pc' = (CallKey(id) :> IF is_monitoring THEN "returned" ELSE "set_flag")
                      @@ start_pc
    /\ UNCHANGED <<config, crawl_vars, cb_vars, response_cache, pipe_vars, sort_vars, mon_vars,
                   conc_vars, args, cancel_vars, targets, all_results, pc,
                   scan_queue, futures, workers, snapshot, idx, results,
                   visited_urls, dequeued, enqueued, net_errors, stats, is_monitoring, monitor_threads, start_writes>>

\* line 40: self.is_monitoring = True
SetMonitoring(id) ==
    /\ CallKey(id) \in DOMAIN start_pc
    /\ start_pc[CallKey(id)] = "set_flag"
    /\ is_monitoring' = TRUE
    /\ start_pc' = [start_pc EXCEPT ![CallKey(id)] = "set_time"]
    /\ UNCHANGED <<config, crawl_vars, cb_vars, response_cache, pipe_vars, sort_vars, mon_vars,
                   conc_vars, args, cancel_vars, targets, all_results, pc,
                   scan_queue, futures, workers, snapshot, idx, results,
                   visited_urls, dequeued, enqueued, net_errors, stats, monitor_threads, start_writes>>

\* line 41: self.stats['start_time'] = datetime.now()
SetStartTime(id) ==
    /\ CallKey(id) \in DOMAIN start_pc
    /\ start_pc[CallKey(id)] = "set_time"
    /\ stats' = [stats EXCEPT !.start_time = "now"]
    /\ start_writes' = start_writes + 1
    /\ start_pc' = [start_pc EXCEPT ![CallKey(id)] = "start_thread"]
    /\ UNCHANGED <<config, crawl_vars, cb_vars, response_cache, pipe_vars, sort_vars, mon_vars,
                   conc_vars, args, cancel_vars, targets, all_results, pc,
                   scan_queue, futures, workers, snapshot, idx, results,
                   visited_urls, dequeued, enqueued, net_errors, is_monitoring, monitor_threads>>

\* lines 42-45: the monitor thread is made and started
StartThread(id) ==
    /\ CallKey(id) \in DOMAIN start_pc
    /\ start_pc[CallKey(id)] = "start_thread"
    /\ monitor_threads' = monitor_threads + 1
    /\ start_pc' = [start_pc EXCEPT ![CallKey(id)] = "returned"]
    /\ UNCHANGED <<config, crawl_vars, cb_vars, response_cache, pipe_vars, sort_vars, mon_vars,
                   conc_vars, args, cancel_vars, targets, all_results, pc,
                   scan_queue, futures, workers, snapshot, idx, results,
                   visited_urls, dequeued, enqueued, net_errors, stats, is_monitoring, start_writes>>

\* the rest of _scan_url, for a call that is past line 139
SessionWork ==
    \E f \in Elements(futures) :
        f.id \in Started /\ \E raw \in ProbeResults(f.url) : WorkerReturn(f.id, raw)

SessionClassifyFail ==
    \E f \in Elements(futures) :
        /\ f.id \in Started
        /\ \E raw \in ProbeResults(f.url) :
              \E bad \in 1..Len(raw) : WorkerClassifyRaise(f.id, raw, bad)

SessionFail == \E f \in Elements(futures) : f.id \in Started /\ WorkerRaise(f.id)

SessionNext ==
    \/ ParserError
    \/ LoadTargets
    \/ StartTarget
    \/ ReturnAll
    \/ LoopTest
    \/ SubmitTask
    \/ StartCollect
    \/ SkipRunning
    \/ CollectDone
    \/ CollectRaised
    \/ EndCollect
    \/ \E id \in DOMAIN workers : TestMonitoring(id)
    \/ \E id \in DOMAIN workers : SetMonitoring(id)
    \/ \E id \in DOMAIN workers : SetStartTime(id)
    \/ \E id \in DOMAIN workers : StartThread(id)
    \/ SessionWork
    \/ SessionClassifyFail
    \/ SessionFail

SessionSpec == Init /\ [][SessionNext]_vars

(***************************************************************************)
(* MonitorSpec: one RealtimeMonitor whose update_stats is called by the    *)
(* threads of the pool while its monitor thread runs.  A call is taken     *)
(* statement by statement: the lock, the load and the store of             *)
(* `self.stats[key] += value`, the release.  Every call of the program     *)
(* passes one keyword.                                                     *)
(***************************************************************************)
\* the calls made: deltas for two counters, and values for end_time, the
\* field of stats that is not a number
UpdateCalls ==
    {[key |-> k, numeric |-> TRUE, delta |-> d, value |-> ""] :
        k \in {"total_requests", "found_paths"}, d \in {1, 2}}
    \cup {[key |-> "end_time", numeric |-> FALSE, delta |-> 0, value |-> v] :
            v \in {"t1", "t2"}}

MonitorInit ==
    /\ config \in {ScanConfig(DefaultInclude, DefaultExclude, 0, 0, FALSE, 0, 1)}
    /\ response_cache = EmptyCache
    /\ PipeIdle
    /\ SortIdle
    /\ ScanIdle
    /\ MonIdle
    /\ ConcIdle
    /\ CrawlIdle
    /\ SessionIdle
    /\ CallbackIdle

\* the lock taken without a look at it: no thread ever waits
lock_is_free_unchecked(lock) == TRUE

\* threading.Lock: it can be acquired when no thread holds it
lock_is_free(lock) == lock = "free"

\* start_monitoring lines 37-43, first call: the start time is written (not
\* under the lock) and the monitor thread is started
StartMonitoring ==
    /\ stats.start_time = "None"
    /\ stats' = start_monitoring(stats)
    /\ UNCHANGED <<config, crawl_vars, session_vars, cb_vars, response_cache, pipe_vars, sort_vars, conc_vars,
                   mon_vars, targets, all_results, pc, scan_queue, futures,
                   workers, snapshot, idx, results, visited_urls, dequeued,
                   enqueued, args, net_errors, cancel_vars>>

\* a pool thread calls update_stats(key=value)
CallUpdate(t, call) ==
    /\ mon_pc[t] = "idle"
    /\ mon_started < MaxUpdates
    /\ mon_started' = mon_started + 1
    /\ mon_call' = [mon_call EXCEPT ![t] = call]
    /\ mon_pc' = [mon_pc EXCEPT ![t] = "wait"]
    /\ mon_sum' = IF call.numeric
                  THEN [mon_sum EXCEPT ![call.key] = @ + call.delta]
                  ELSE mon_sum
    /\ mon_values' = IF call.numeric THEN mon_values ELSE mon_values \cup {call.value}
    /\ UNCHANGED <<config, crawl_vars, session_vars, cb_vars, response_cache, pipe_vars, sort_vars, conc_vars,
                   scan_vars, mon_lock, mon_tmp>>

\* update_stats line 62: `with self.lock`
AcquireLock(t) ==
    /\ mon_pc[t] = "wait"
    /\ lock_is_free(mon_lock)
    /\ mon_lock' = t
    /\ mon_pc' = [mon_pc EXCEPT ![t] = "locked"]
    /\ UNCHANGED <<config, crawl_vars, session_vars, cb_vars, response_cache, pipe_vars, sort_vars, conc_vars,
                   scan_vars, mon_call, mon_tmp, mon_started, mon_sum, mon_values>>

\* line 66, first half: the counter is loaded
LoadCounter(t) ==
    /\ mon_pc[t] = "locked"
    /\ mon_call[t].numeric
    /\ mon_tmp' = [mon_tmp EXCEPT ![t] = stats[mon_call[t].key]]
    /\ mon_pc' = [mon_pc EXCEPT ![t] = "loaded"]
    /\ UNCHANGED <<config, crawl_vars, session_vars, cb_vars, response_cache, pipe_vars, sort_vars, conc_vars,
                   scan_vars, mon_lock, mon_call, mon_started, mon_sum, mon_values>>

\* line 66, second half: the sum is stored
StoreCounter(t) ==
    /\ mon_pc[t] = "loaded"
    /\ stats' = [stats EXCEPT ![mon_call[t].key] = mon_tmp[t] + mon_call[t].delta]
    /\ mon_pc' = [mon_pc EXCEPT ![t] = "stored"]
    /\ UNCHANGED <<config, crawl_vars, session_vars, cb_vars, response_cache, pipe_vars, sort_vars, conc_vars,
                   mon_lock, mon_call, mon_tmp, mon_started, mon_sum, mon_values,
                   targets, all_results, pc, scan_queue, futures, workers,
                   snapshot, idx, results, visited_urls, dequeued, enqueued,
                   args, net_errors, cancel_vars>>

\* line 68: a value that is not a number replaces the field
StoreValue(t) ==
    /\ mon_pc[t] = "locked"
    /\ ~mon_call[t].numeric
    /\ stats' = [stats EXCEPT ![mon_call[t].key] = mon_call[t].value]
    /\ mon_pc' = [mon_pc EXCEPT ![t] = "stored"]
    /\ UNCHANGED <<config, crawl_vars, session_vars, cb_vars, response_cache, pipe_vars, sort_vars, conc_vars,
                   mon_lock, mon_call, mon_tmp, mon_started, mon_sum, mon_values,
                   targets, all_results, pc, scan_queue, futures, workers,
                   snapshot, idx, results, visited_urls, dequeued, enqueued,
                   args, net_errors, cancel_vars>>

\* lines 71-74 and the end of the with-block: the derived stats are
\* computed, the callbacks get a copy, the lock is released
ReleaseLock(t) ==
    /\ mon_pc[t] = "stored"
    /\ stats' = calculate_derived_stats(stats)
    /\ mon_lock' = "free"
    /\ mon_pc' = [mon_pc EXCEPT ![t] = "idle"]
    /\ mon_call' = [mon_call EXCEPT ![t] = NoCall]
    /\ mon_tmp' = [mon_tmp EXCEPT ![t] = 0]
    /\ UNCHANGED <<config, crawl_vars, session_vars, cb_vars, response_cache, pipe_vars, sort_vars, conc_vars,
                   mon_started, mon_sum, mon_values,
                   targets, all_results, pc, scan_queue, futures, workers,
                   snapshot, idx, results, visited_urls, dequeued, enqueued,
                   args, net_errors, cancel_vars>>

\* _monitor_loop line 90: the monitor thread takes the lock
MonitorAcquire ==
    /\ stats.start_time # "None"
    /\ lock_is_free(mon_lock)
    /\ mon_lock # "monitor"
    /\ mon_lock' = "monitor"
    /\ UNCHANGED <<config, crawl_vars, session_vars, cb_vars, response_cache, pipe_vars, sort_vars, conc_vars,
                   scan_vars, mon_pc, mon_call, mon_tmp, mon_started, mon_sum,
                   mon_values>>

\* _monitor_loop lines 91-92 and the end of the with-block
MonitorRelease ==
    /\ mon_lock = "monitor"
    /\ stats' = calculate_derived_stats(stats)
    /\ mon_lock' = "free"
    /\ UNCHANGED <<config, crawl_vars, session_vars, cb_vars, response_cache, pipe_vars, sort_vars, conc_vars,
                   mon_pc, mon_call, mon_tmp, mon_started, mon_sum, mon_values,
                   targets, all_results, pc, scan_queue, futures, workers,
                   snapshot, idx, results, visited_urls, dequeued, enqueued,
                   args, net_errors, cancel_vars>>

MonitorNext ==
    \/ StartMonitoring
    \/ \E t \in Threads : \E call \in UpdateCalls : CallUpdate(t, call)
    \/ \E t \in Threads : AcquireLock(t)
    \/ \E t \in Threads : LoadCounter(t)
    \/ \E t \in Threads : StoreCounter(t)
    \/ \E t \in Threads : StoreValue(t)
    \/ \E t \in Threads : ReleaseLock(t)
    \/ MonitorAcquire
    \/ MonitorRelease

MonitorSpec == MonitorInit /\ [][MonitorNext]_vars

(***************************************************************************)
(* CallbackSpec: update_stats called by the pool threads on a monitor with *)
(* registered callbacks (add_callback).  _notify_callbacks runs inside the *)
(* with-block of update_stats, so a callback runs in the calling thread    *)
(* while that thread holds the lock.  The monitor thread is asleep.        *)
(***************************************************************************)
\* what a callback does with the copy of the stats: it returns, it raises,
\* or it calls update_stats of the monitor it is registered with
CallbackKinds == {"returns", "raises", "update_stats"}

CallbackInit ==
    /\ config \in {ScanConfig(DefaultInclude, DefaultExclude, 0, 0, FALSE, 0, 1)}
    /\ response_cache = EmptyCache
    /\ PipeIdle
    /\ SortIdle
    /\ ScanIdle
    /\ MonIdle
    /\ ConcIdle
    /\ CrawlIdle
    /\ SessionIdle
    /\ callbacks \in SeqsUpTo(CallbackKinds, MaxCallbacks)
    /\ cb_pos = [t \in Threads |-> 1]
    /\ cb_nested = [t \in Threads |-> FALSE]

\* update_stats line 71 and _notify_callbacks line 115: the derived stats
\* are computed and copied for the callbacks
BeginNotify(t) ==
    /\ mon_pc[t] = "stored"
    /\ stats' = calculate_derived_stats(stats)
    /\ mon_pc' = [mon_pc EXCEPT ![t] = "notify"]
    /\ cb_pos' = [cb_pos EXCEPT ![t] = 1]
    /\ UNCHANGED <<config, crawl_vars, session_vars, response_cache, pipe_vars,
                   sort_vars, conc_vars, mon_call, mon_tmp, mon_started, mon_sum,
                   mon_values, callbacks, targets, all_results, pc, scan_queue,
                   futures, workers, snapshot, idx, results, visited_urls,
                   dequeued, enqueued, args, net_errors, cancel_vars, mon_lock, cb_nested>>

\* lines 116-118: the callback is called and returns
CallbackReturns(t) ==
    /\ mon_pc[t] = "notify"
    /\ cb_pos[t] <= Len(callbacks)
    /\ callbacks[cb_pos[t]] = "returns"
    /\ cb_pos' = [cb_pos EXCEPT ![t] = @ + 1]
    /\ UNCHANGED <<config, crawl_vars, session_vars, response_cache, pipe_vars,
                   sort_vars, conc_vars, scan_vars, mon_call, mon_tmp,
                   mon_started, mon_sum, mon_values, callbacks, mon_lock, mon_pc, cb_nested>>

\* lines 117-120: the callback raises, the error is logged
CallbackRaises(t) ==
    /\ mon_pc[t] = "notify"
    /\ cb_pos[t] <= Len(callbacks)
    /\ callbacks[cb_pos[t]] = "raises"
    /\ cb_pos' = [cb_pos EXCEPT ![t] = @ + 1]
    /\ UNCHANGED <<config, crawl_vars, session_vars, response_cache, pipe_vars,
                   sort_vars, conc_vars, scan_vars, mon_call, mon_tmp,
                   mon_started, mon_sum, mon_values, callbacks, mon_lock, mon_pc, cb_nested>>

\* line 118 with a callback that calls update_stats: the thread is at line
\* 62 again, at `with self.lock`, inside the callback
CallbackReenters(t) ==
    /\ mon_pc[t] = "notify"
    /\ cb_pos[t] <= Len(callbacks)
    /\ callbacks[cb_pos[t]] = "update_stats"
    /\ mon_pc' = [mon_pc EXCEPT ![t] = "wait"]
    /\ cb_nested' = [cb_nested EXCEPT ![t] = TRUE]
    /\ UNCHANGED <<config, crawl_vars, session_vars, response_cache, pipe_vars,
                   sort_vars, conc_vars, scan_vars, mon_call, mon_tmp,
                   mon_started, mon_sum, mon_values, callbacks, mon_lock, cb_pos>>

\* the end of the loop of line 116 and of the with-block of line 62: the
\* lock is released and update_stats returns
EndNotify(t) ==
    /\ mon_pc[t] = "notify"
    /\ cb_pos[t] > Len(callbacks)
    /\ mon_lock' = "free"
    /\ mon_pc' = [mon_pc EXCEPT ![t] = "idle"]
    /\ mon_call' = [mon_call EXCEPT ![t] = NoCall]
    /\ mon_tmp' = [mon_tmp EXCEPT ![t] = 0]
    /\ cb_pos' = [cb_pos EXCEPT ![t] = 1]
    /\ UNCHANGED <<config, crawl_vars, session_vars, response_cache, pipe_vars,
                   sort_vars, conc_vars, scan_vars, mon_started, mon_sum,
                   mon_values, callbacks, cb_nested>>

CallbackNext ==
    \/ \E t \in Threads : \E call \in UpdateCalls : CallUpdate(t, call)
    \/ \E t \in Threads : AcquireLock(t)
    \/ \E t \in Threads : LoadCounter(t)
    \/ \E t \in Threads : StoreCounter(t)
    \/ \E t \in Threads : StoreValue(t)
    \/ \E t \in Threads : BeginNotify(t)
    \/ \E t \in Threads : CallbackReturns(t)
    \/ \E t \in Threads : CallbackRaises(t)
    \/ \E t \in Threads : CallbackReenters(t)
    \/ \E t \in Threads : EndNotify(t)

CallbackSpec == CallbackInit /\ [][CallbackNext]_vars

(***************************************************************************)
(* ConcurrentSpec: two pool threads inside filter_results of the one       *)
(* IntelligentFilter of the scanner, each with the batch of its Target.    *)
(* _is_interesting and _remove_duplicates work on locals; the loop of      *)
(* _remove_similar_responses reads and writes the shared response_cache,   *)
(* without a lock, and is taken statement by statement.                    *)
(***************************************************************************)
\* the results the batches are made of: two of one content hash, of which
\* the second is the better one, and one of another hash
ConcResults ==
    {Classified(UrlP, 403, BodyA1), Classified(UrlQ, 200, BodyA2),
     Classified(UrlP, 403, BodyB)}

ConcurrentInit ==
    /\ config \in {ScanConfig(DefaultInclude, DefaultExclude, 0, 0, FALSE, 0, 1)}
    /\ response_cache = EmptyCache
    /\ PipeIdle
    /\ SortIdle
    /\ ScanIdle
    /\ MonIdle
    /\ CrawlIdle
    /\ SessionIdle
    /\ CallbackIdle
    /\ conc_batch \in [Threads -> SeqsUpTo(ConcResults, MaxBatchLen)]
    /\ conc_list = [t \in Threads |-> << >>]
    /\ conc_pos = [t \in Threads |-> 1]
    /\ conc_pc = [t \in Threads |-> "call"]
    /\ conc_existing = [t \in Threads |-> << >>]
    /\ conc_unique = [t \in Threads |-> << >>]

\* the result the loop of _remove_similar_responses is at, and its hash
CurrentResult(t) == conc_list[t][conc_pos[t]]

CurrentHash(t) == calculate_content_hash(CurrentResult(t).content)

\* filter_results lines 43-50: the interesting results, without duplicates
EnterFilter(t) ==
    /\ conc_pc[t] = "call"
    /\ conc_list' = [conc_list EXCEPT
          ![t] = remove_duplicates(interesting_of(config, conc_batch[t]))]
    /\ conc_pc' = [conc_pc EXCEPT ![t] = "test"]
    /\ UNCHANGED <<config, crawl_vars, session_vars, cb_vars, response_cache, pipe_vars, sort_vars, scan_vars,
                   mon_vars, conc_batch, conc_pos, conc_existing, conc_unique>>

\* _remove_similar_responses line 128: is the hash in response_cache?
TestCache(t) ==
    /\ conc_pc[t] = "test"
    /\ conc_pos[t] <= Len(conc_list[t])
    /\ conc_pc' = [conc_pc EXCEPT
          ![t] = IF CurrentHash(t) \notin DOMAIN response_cache
                 THEN "absent" ELSE "present"]
    /\ UNCHANGED <<config, crawl_vars, session_vars, cb_vars, response_cache, pipe_vars, sort_vars, scan_vars,
                   mon_vars, conc_batch, conc_list, conc_pos, conc_existing,
                   conc_unique>>

\* lines 129-130: the result is stored under its hash and kept
StoreNew(t) ==
    /\ conc_pc[t] = "absent"
    /\ response_cache' = (CurrentHash(t) :> CurrentResult(t)) @@ response_cache
    /\ conc_unique' = [conc_unique EXCEPT ![t] = Append(@, CurrentResult(t))]
    /\ conc_pos' = [conc_pos EXCEPT ![t] = @ + 1]
    /\ conc_pc' = [conc_pc EXCEPT ![t] = "test"]
    /\ UNCHANGED <<config, crawl_vars, session_vars, cb_vars, pipe_vars, sort_vars, scan_vars, mon_vars,
                   conc_batch, conc_list, conc_existing>>

\* lines 133-134: the cached result is read and compared; a result that is
\* not better is dropped
LoadExisting(t) ==
    /\ conc_pc[t] = "present"
    /\ LET existing == response_cache[CurrentHash(t)]
       IN IF is_better_result(CurrentResult(t), existing)
          THEN /\ conc_existing' = [conc_existing EXCEPT ![t] = <<existing>>]
               /\ conc_pc' = [conc_pc EXCEPT ![t] = "better"]
               /\ UNCHANGED conc_pos
          ELSE /\ conc_pos' = [conc_pos EXCEPT ![t] = @ + 1]
               /\ conc_pc' = [conc_pc EXCEPT ![t] = "test"]
               /\ UNCHANGED conc_existing
    /\ UNCHANGED <<config, crawl_vars, session_vars, cb_vars, response_cache, pipe_vars, sort_vars, scan_vars,
                   mon_vars, conc_batch, conc_list, conc_unique>>

\* lines 135-140: the better result is stored and overwrites the entry of
\* unique_results that has the URL of the one it replaces
StoreBetter(t) ==
    /\ conc_pc[t] = "better"
    /\ response_cache' = (CurrentHash(t) :> CurrentResult(t)) @@ response_cache
    /\ conc_unique' = [conc_unique EXCEPT
          ![t] = replace_first_url(@, conc_existing[t][1], CurrentResult(t))]
    /\ conc_existing' = [conc_existing EXCEPT ![t] = << >>]
    /\ conc_pos' = [conc_pos EXCEPT ![t] = @ + 1]
    /\ conc_pc' = [conc_pc EXCEPT ![t] = "test"]
    /\ UNCHANGED <<config, crawl_vars, session_vars, cb_vars, pipe_vars, sort_vars, scan_vars, mon_vars,
                   conc_batch, conc_list>>

\* line 142 and _scan_url line 179: the list is returned and prioritized
ReturnFiltered(t) ==
    /\ conc_pc[t] = "test"
    /\ conc_pos[t] > Len(conc_list[t])
    /\ conc_unique' = [conc_unique EXCEPT ![t] = prioritize_results(@)]
    /\ conc_pc' = [conc_pc EXCEPT ![t] = "done"]
    /\ UNCHANGED <<config, crawl_vars, session_vars, cb_vars, response_cache, pipe_vars, sort_vars, scan_vars,
                   mon_vars, conc_batch, conc_list, conc_pos, conc_existing>>

ConcurrentNext ==
    \/ \E t \in Threads : EnterFilter(t)
    \/ \E t \in Threads : TestCache(t)
    \/ \E t \in Threads : StoreNew(t)
    \/ \E t \in Threads : LoadExisting(t)
    \/ \E t \in Threads : StoreBetter(t)
    \/ \E t \in Threads : ReturnFiltered(t)

ConcurrentSpec == ConcurrentInit /\ [][ConcurrentNext]_vars

(***************************************************************************)
(* CrawlerSpec: the one Crawler of the scanner, whose scan is called by    *)
(* the pool threads (_scan_url line 153).  `visited` belongs to the object *)
(* and is read and written without a lock; to_visit, current_url and       *)
(* results are locals of a call.  A call is taken statement by statement.  *)
(***************************************************************************)
\* Crawler.scan line 32: the size at which the crawl loop stops
VisitedLimit == 1000

\* a URL the crawler handles: its netloc, the number of the page, and the
\* extension of its path
CrawlUrl(n, p, e) == [netloc |-> n, page |-> p, ext |-> e]

\* the URLs that calls made before have left in `visited`
Earlier(n) == {CrawlUrl("t", i, "") : i \in 1..n}

\* the pages of the site that were not crawled yet, an image of the site
\* and a page of another site
NewPage(k) == CrawlUrl("t", VisitedLimit + k, "")

Image == CrawlUrl("t", VisitedLimit + 4, ".png")

Offsite == CrawlUrl("x", 1, "")

\* _extract_urls: the URLs of the href and src attributes of a page
CrawlLinks(url) ==
    CASE url = NewPage(1) -> <<NewPage(3), Offsite>>
      [] url = NewPage(2) -> <<NewPage(1), Image>>
      [] url = NewPage(3) -> <<NewPage(2)>>
      [] OTHER -> << >>

\* _in_scope: same netloc, and not one of the excluded extensions
in_scope(url, base_url) ==
    /\ url.netloc = base_url.netloc
    /\ url.ext \notin {".jpg", ".jpeg", ".png", ".gif", ".css", ".ico", ".woff", ".woff2"}

RECURSIVE append_new(_, _, _, _)
\* Crawler.scan lines 47-51: to_visit after the loop over new_urls
append_new(to_visit, new_urls, visited, base_url) ==
    IF new_urls = << >> THEN to_visit
    ELSE LET url == Head(new_urls)
         IN IF url \notin visited /\ url \notin Elements(to_visit)
               /\ in_scope(url, base_url)
            THEN append_new(Append(to_visit, url), Tail(new_urls), visited, base_url)
            ELSE append_new(to_visit, Tail(new_urls), visited, base_url)

\* the crawler has been used before: `visited` holds what earlier calls of
\* the scan left in it
CrawlerInit ==
    /\ config \in {ScanConfig(DefaultInclude, DefaultExclude, 0, 0, TRUE, 1, MaxThreads)}
    /\ response_cache = EmptyCache
    /\ PipeIdle
    /\ SortIdle
    /\ ScanIdle
    /\ MonIdle
    /\ ConcIdle
    /\ crawl_visited \in {Earlier(n) : n \in {0, VisitedLimit - 2, VisitedLimit - 1}}
    /\ crawl_pc = [t \in Threads |-> "idle"]
    /\ crawl_base = [t \in Threads |-> << >>]
    /\ crawl_to_visit = [t \in Threads |-> << >>]
    /\ crawl_current = [t \in Threads |-> << >>]
    /\ crawl_results = [t \in Threads |-> << >>]
    /\ crawl_calls = 0
    /\ SessionIdle
    /\ CallbackIdle

\* Crawler.scan lines 27-28: a pool thread calls scan(base_url)
CrawlCall(t, base_url) ==
    /\ crawl_pc[t] = "idle"
    /\ crawl_calls < MaxCrawls
    /\ crawl_calls' = crawl_calls + 1
    /\ crawl_base' = [crawl_base EXCEPT ![t] = <<base_url>>]
    /\ crawl_to_visit' = [crawl_to_visit EXCEPT ![t] = <<base_url>>]
    /\ crawl_results' = [crawl_results EXCEPT ![t] = << >>]
    /\ crawl_pc' = [crawl_pc EXCEPT ![t] = "test"]
    /\ UNCHANGED <<config, session_vars, cb_vars, response_cache, pipe_vars, sort_vars, scan_vars,
                   mon_vars, conc_vars, crawl_visited, crawl_current>>

\* line 32, second test: len(self.visited) < 1000
limit_not_reached(visited) == Cardinality(visited) < VisitedLimit

\* line 32: the loop test; line 53 when it fails
CrawlTest(t) ==
    /\ crawl_pc[t] = "test"
    /\ crawl_pc' = [crawl_pc EXCEPT
          ![t] = IF crawl_to_visit[t] # << >> /\ limit_not_reached(crawl_visited)
                 THEN "pop" ELSE "idle"]
    /\ UNCHANGED <<config, session_vars, cb_vars, response_cache, pipe_vars, sort_vars, scan_vars,
                   mon_vars, conc_vars, crawl_visited, crawl_base, crawl_to_visit,
                   crawl_current, crawl_results, crawl_calls>>

\* lines 33-36: the next URL is taken; one that was visited is skipped
CrawlPop(t) ==
    /\ crawl_pc[t] = "pop"
    /\ crawl_current' = [crawl_current EXCEPT ![t] = <<Head(crawl_to_visit[t])>>]
    /\ crawl_to_visit' = [crawl_to_visit EXCEPT ![t] = Tail(@)]
    /\ crawl_pc' = [crawl_pc EXCEPT
          ![t] = IF Head(crawl_to_visit[t]) \in crawl_visited THEN "test" ELSE "add"]
    /\ UNCHANGED <<config, session_vars, cb_vars, response_cache, pipe_vars, sort_vars, scan_vars,
                   mon_vars, conc_vars, crawl_visited, crawl_base, crawl_results, crawl_calls>>

\* line 38: self.visited.add(current_url)
CrawlAdd(t) ==
    /\ crawl_pc[t] = "add"
    /\ crawl_visited' = crawl_visited \cup {crawl_current[t][1]}
    /\ crawl_pc' = [crawl_pc EXCEPT ![t] = "request"]
    /\ UNCHANGED <<config, session_vars, cb_vars, response_cache, pipe_vars, sort_vars, scan_vars,
                   mon_vars, conc_vars, crawl_base, crawl_to_visit, crawl_current,
                   crawl_results, crawl_calls>>

\* lines 41-42 when _crawl_url returns None: the request failed
CrawlFailed(t) ==
    /\ crawl_pc[t] = "request"
    /\ crawl_pc' = [crawl_pc EXCEPT ![t] = "test"]
    /\ UNCHANGED <<config, session_vars, cb_vars, response_cache, pipe_vars, sort_vars, scan_vars,
                   mon_vars, conc_vars, crawl_visited, crawl_base, crawl_to_visit,
                   crawl_current, crawl_results, crawl_calls>>

\* lines 41-51: the page came back; its URLs (a list made of a set, so in
\* any order) that are new and in scope are appended to to_visit
CrawlFetched(t) ==
    /\ crawl_pc[t] = "request"
    /\ crawl_results' = [crawl_results EXCEPT ![t] = Append(@, crawl_current[t][1])]
    /\ \E new_urls \in Reorderings(CrawlLinks(crawl_current[t][1])) :
          crawl_to_visit' = [crawl_to_visit EXCEPT
              ![t] = append_new(@, new_urls, crawl_visited, crawl_base[t][1])]
    /\ crawl_pc' = [crawl_pc EXCEPT ![t] = "test"]
    /\ UNCHANGED <<config, session_vars, cb_vars, response_cache, pipe_vars, sort_vars, scan_vars,
                   mon_vars, conc_vars, crawl_visited, crawl_base, crawl_current, crawl_calls>>

CrawlerNext ==
    \/ \E t \in Threads : \E k \in 1..2 : CrawlCall(t, NewPage(k))
    \/ \E t \in Threads : CrawlTest(t)
    \/ \E t \in Threads : CrawlPop(t)
    \/ \E t \in Threads : CrawlAdd(t)
    \/ \E t \in Threads : CrawlFailed(t)
    \/ \E t \in Threads : CrawlFetched(t)

CrawlerSpec == CrawlerInit /\ [][CrawlerNext]_vars

(***************************************************************************)
(* Properties of the result pipeline.                                      *)
(***************************************************************************)
\* the order of Stage 3 as the specification words it: 200 beats any
\* non-200, and among non-200s the lower status code wins
BeatsInClass(x, y) ==
    \/ x.status_code = 200 /\ y.status_code # 200
    \/ x.status_code # 200 /\ y.status_code # 200 /\ x.status_code < y.status_code

\* the score of Stage 4 as the specification words it
BaseScore(status) ==
    CASE status = 200 -> 0
      [] status \in {301, 302} -> 1
      [] status = 403 -> 2
      [] status = 401 -> 3
      [] OTHER -> 10

LengthAdjustment(length) ==
    CASE length = 0 -> 5
      [] 0 < length /\ length < 100 -> 2
      [] length > 1000000 -> 1
      [] OTHER -> 0

PriorityScore(result) ==
    BaseScore(result.status_code) + LengthAdjustment(result.content_length)

Scores(seq) == [i \in 1..Len(seq) |-> PriorityScore(seq[i])]

\* C3 (as claimed): a (url, status_code) pair submitted twice, in one batch
\* or in two batches, has exactly one result in the output of the scan: no
\* two entries of the concatenated output share their url and status code.
C3_ExactDedupIdempotent ==
    \A i, j \in 1..Len(pipe_output) :
        (/\ pipe_output[i].url = pipe_output[j].url
         /\ pipe_output[i].status_code = pipe_output[j].status_code) => i = j

\* what the pipeline emits when `batch` is submitted at once to a filter
\* whose response_cache is `cache`
EmittedAtOnce(cache, batch) == Elements(filter_results(config, cache, batch).out)

\* what it emits when the first k results of `batch` are one call and the
\* rest is the next call
EmittedSplit(cache, batch, k) ==
    LET first == filter_results(config, cache, SubSeq(batch, 1, k))
        second == filter_results(config, first.cache, SubSeq(batch, k + 1, Len(batch)))
    IN Elements(first.out) \cup Elements(second.out)

\* C4 (as claimed): the surviving representatives do not depend on the
\* submission order: every permutation of the last batch, and every split of
\* it into two successive batches, leaves the same results in the output as
\* the batch did.
C4_OrderIndependentRepresentative ==
    pipe_calls > 0 =>
        /\ \A p \in Reorderings(pipe_batch) :
              EmittedAtOnce(pipe_prev_cache, p) = Elements(pipe_returned)
        /\ \A k \in 0..Len(pipe_batch) :
              EmittedSplit(pipe_prev_cache, pipe_batch, k) = Elements(pipe_returned)

\* C5 (as claimed): the result retained for a content hash is the best one
\* submitted: no interesting result that was submitted beats an entry of the
\* output that has its content hash (a 403 entry does not stay when a 200
\* result with the same normalized body was submitted).
C5_RepresentativeIsBest ==
    \A s \in pipe_accepted : \A i \in 1..Len(pipe_output) :
        calculate_content_hash(pipe_output[i].content) = calculate_content_hash(s.content)
            => ~BeatsInClass(s, pipe_output[i])

\* C9: no entry of the pipeline output has a status code of the exclude
\* list, or one outside the include list when an include list is set.
C9_StatusAcceptance ==
    \A i \in 1..Len(pipe_output) :
        /\ pipe_output[i].status_code \notin config.exclude_status_codes
        /\ config.include_status_codes # {}
              => pipe_output[i].status_code \in config.include_status_codes

\* C9 witness: a batch holding a result of an excluded status and one whose
\* status is outside the include list was submitted, and the output is not
\* empty.
C9_Witness ==
    /\ pipe_output # << >>
    /\ config.include_status_codes # {}
    /\ \E i, j \in 1..Len(pipe_batch) :
          /\ pipe_batch[i].status_code \in config.exclude_status_codes
          /\ pipe_batch[j].status_code \notin config.exclude_status_codes
          /\ pipe_batch[j].status_code \notin config.include_status_codes

\* C10: no entry of the pipeline output has a content length below
\* min_response_size or above max_response_size, when that bound is set.
C10_SizeAcceptance ==
    \A i \in 1..Len(pipe_output) :
        /\ config.min_response_size # 0
              => pipe_output[i].content_length >= config.min_response_size
        /\ config.max_response_size # 0
              => pipe_output[i].content_length <= config.max_response_size

\* C10 witness: with min_response_size = 100 a batch holding a result of
\* content length below 100 was submitted, and the output is not empty.
C10_Witness ==
    /\ config.min_response_size = 100
    /\ pipe_output # << >>
    /\ \E i \in 1..Len(pipe_batch) : pipe_batch[i].content_length < 100

\* C8: the key prioritize_results sorts by is base(status) + adj(length) as
\* tabulated, and the list it returns is ascending in that score.
C8_ScoreFunction ==
    /\ \A i \in 1..Len(sort_in) : sort_key(sort_in[i]) = PriorityScore(sort_in[i])
    /\ sort_done =>
          \A i, j \in 1..Len(sort_out) :
              i < j => PriorityScore(sort_out[i]) <= PriorityScore(sort_out[j])

\* C8 witness: prioritize_results has moved a 200 result in front of a 401
\* result of more than 1,000,000 bytes that came first.
C8_Witness ==
    /\ sort_done
    /\ Len(sort_in) = 2
    /\ sort_in[1].status_code = 401 /\ sort_in[1].content_length > 1000000
    /\ sort_out = <<sort_in[2], sort_in[1]>>
    /\ sort_out[1].status_code = 200

\* C7 (as claimed): reordering the input, equal-score results included,
\* never changes the sequence prioritize_results returns.
C7_OrderNeverMatters ==
    sort_done => \A p \in Reorderings(sort_in) : prioritize_results(p) = sort_out

\* C7 (amended): for every reordering of the input the returned list holds
\* the same results, ascending, with the same sequence of scores; it is the
\* same sequence whenever no two results of the input have the same score.
C7_OrderMattersOnlyOnTies ==
    sort_done =>
        \A p \in Reorderings(sort_in) :
            LET out == prioritize_results(p)
            IN /\ out \in Reorderings(sort_in)
               /\ Scores(out) = Scores(sort_out)
               /\ \A i, j \in 1..Len(out) : i < j => Scores(out)[i] <= Scores(out)[j]
               /\ (\A i, j \in 1..Len(sort_in) :
                      i # j => PriorityScore(sort_in[i]) # PriorityScore(sort_in[j]))
                     => out = sort_out

\* C7 witness: a list of two results of different scores, given in
\* descending order, has been sorted.
C7_Witness ==
    /\ sort_done
    /\ Len(sort_in) = 2
    /\ PriorityScore(sort_in[1]) > PriorityScore(sort_in[2])
    /\ sort_out = <<sort_in[2], sort_in[1]>>

(***************************************************************************)
(* Properties of the scan.                                                 *)
(***************************************************************************)
\* C1 (as claimed): within one scan_target no URL is taken off the scan
\* queue and handed to _scan_url more than once, the seed included.
C1_VisitedOnce ==
    \A i, j \in 1..Len(dequeued) : dequeued[i][1] = dequeued[j][1] => i = j

\* C2: every pair put on the scan queue or handed to a worker has a depth of
\* at most max_depth; a seed has depth 0 and a child the depth of its parent
\* plus one.
C2_DepthBound ==
    /\ \A i \in 1..Len(enqueued) :
          /\ enqueued[i].depth <= config.max_depth
          /\ enqueued[i].seed => enqueued[i].depth = 0
          /\ ~enqueued[i].seed => enqueued[i].depth = enqueued[i].parent_depth + 1
    /\ \A i \in 1..Len(dequeued) : dequeued[i][2] <= config.max_depth
    /\ \A i \in 1..Len(scan_queue) : scan_queue[i][2] <= config.max_depth

\* C2 witness: a recursive scan has ended in which a Target was processed at
\* depth max_depth > 0 and a returned result that is eligible for recursion
\* links to a URL of the site that was never enqueued.
C2_Witness ==
    /\ pc = "done"
    /\ config.recursive
    /\ config.max_depth > 0
    /\ \E i \in 1..Len(dequeued) : dequeued[i][2] = config.max_depth
    /\ \E r \in Elements(all_results) :
          /\ should_recurse(config, r)
          /\ \E u \in Elements(extract_new_urls(r)) :
                u \notin visited_urls /\ Site(u) # << >>

\* C6 (as claimed): the list scan_targets returns is ascending in the
\* priority score.
C6_FinalOutputSorted ==
    pc = "done" =>
        \A i, j \in 1..Len(all_results) :
            i < j => PriorityScore(all_results[i]) <= PriorityScore(all_results[j])

\* the futures of the current scan_target that were collected (taken off
\* `futures` by the pass of line 110)
Collected == {id \in DOMAIN workers : \A f \in Elements(futures) : f.id # id}

\* C11 (as claimed): once a Target of depth below max_depth has completed
\* and was collected in a recursive scan, every in-scope link of every one
\* of its classified results with a recursion-eligible status code is in
\* the visited set: it was enqueued then, at the next depth, unless it had
\* been enqueued before.
C11_LinksOfClassifiedEnqueued ==
    \A id \in Collected :
        (/\ workers[id].st = "done"
         /\ config.recursive
         /\ dequeued[id][2] < config.max_depth)
        => \A r \in Elements(workers[id].classified) :
              should_recurse(config, r)
                  => \A u \in Elements(extract_new_urls(r)) : u \in visited_urls

\* the futures of the current scan_target that are in flight: taken off the
\* queue and submitted, not yet collected
InFlight == {id \in DOMAIN workers : \E f \in Elements(futures) : f.id = id}

\* C13: at every moment the number of Targets in flight is at most the
\* configured thread count.
C13_BoundedConcurrency ==
    /\ Cardinality(InFlight) <= config.threads
    /\ Len(dequeued) - Cardinality(Collected) <= config.threads

\* C13 witness: the pool is full (as many Targets in flight as there are
\* threads) and a Target is waiting in the queue for a place.
C13_Witness ==
    /\ Cardinality(InFlight) = config.threads
    /\ scan_queue # << >>
    /\ pc = "submit"

\* C14: when scan_target has returned, every Target that was put on the
\* queue has been handed to a worker, in queue order, none is still
\* running, and the results of every call that returned are in the list
\* returned, whether or not other calls raised.
C14_FailureIsolation ==
    pc \in {"next_target", "done"} =>
        /\ Len(dequeued) = Len(enqueued)
        /\ \A i \in 1..Len(dequeued) :
              dequeued[i] = <<enqueued[i].url, enqueued[i].depth>>
        /\ \A id \in DOMAIN workers :
              /\ workers[id].st # "running"
              /\ workers[id].st = "done" =>
                    /\ Elements(workers[id].value) \subseteq Elements(results)
                    /\ Elements(workers[id].value) \subseteq Elements(all_results)

\* C14 witness: the scan is over; the call of one Target raised, and a
\* Target handed out after it returned results that are in the output.
C14_Witness ==
    /\ pc = "done"
    /\ \E i, j \in DOMAIN workers :
          /\ i < j
          /\ workers[i].st = "raised"
          /\ workers[j].st = "done"
          /\ workers[j].value # << >>
          /\ Elements(workers[j].value) \subseteq Elements(all_results)

\* C15 (as claimed): every probe request that ended in a network error is
\* counted: the failed counter of the scan statistics is the number of
\* such requests.
C15_FailedRequestsCounted == stats.failed_requests = net_errors

\* C16 (as claimed): when the classification of one raw result of a Target
\* raised, every other raw result of that Target was classified and handed
\* to the pipeline, and the body of every one of them that passes the
\* acceptance filter has its hash in the content-equivalence table.
C16_OtherResultsStillSubmitted ==
    \A id \in DOMAIN workers :
        workers[id].bad # 0 =>
            \A i \in 1..Len(workers[id].raw) :
                i # workers[id].bad =>
                    LET r == analyze(workers[id].raw[i])
                    IN /\ r \in Elements(workers[id].classified)
                       /\ is_interesting(config, r) =>
                             calculate_content_hash(r.content) \in DOMAIN response_cache

\* C20 (as claimed): a run that was given no target ends in the
\* configuration error: it never gets to scan_targets.
C20_NoTargetsIsConfigError ==
    load_targets(args) = << >> => pc \in {"main", "config_error"}

\* C12: the scan ends (scan_targets returns, or main reports the missing
\* targets), and scan_target returns only with the scan queue empty and no
\* Target in flight.
C12_ScanTerminates ==
    /\ <>(pc \in {"done", "config_error"})
    /\ [][(pc = "loop" /\ pc' = "next_target") =>
              (scan_queue = << >> /\ futures = << >> /\ InFlight = {})]_vars

\* C12 witness: a recursive scan has returned after handing out the seed,
\* a link of the seed and a link of that link.
C12_Witness ==
    /\ pc = "done"
    /\ config.recursive
    /\ \E i \in 1..Len(dequeued) : dequeued[i][2] = 2
    /\ scan_queue = << >> /\ futures = << >>

\* C17: once the interrupt was raised no Target is taken off the queue, the
\* queue is left as it was, and the run ends only after every call that was
\* in flight has ended.
C17_Cancellation ==
    cancelled =>
        /\ Len(dequeued) = cancel_mark.dequeued
        /\ scan_queue = cancel_mark.queue
        /\ pc \in {"shutdown", "interrupted"}
        /\ pc = "interrupted" =>
              \A id \in cancel_mark.running : workers[id].st \in {"done", "raised"}

\* C17 witness: the run has ended by the interrupt; when it was raised a
\* Target was waiting in the queue and another was in flight, which has
\* returned its results since.
C17_Witness ==
    /\ pc = "interrupted"
    /\ cancel_mark.queue # << >>
    /\ scan_queue = cancel_mark.queue
    /\ \E id \in cancel_mark.running :
          workers[id].st = "done" /\ workers[id].raw # << >>

(***************************************************************************)
(* Properties of the monitor and of concurrent pipeline calls.             *)
(***************************************************************************)
\* no thread is inside update_stats
Quiescent == \A t \in Threads : mon_pc[t] = "idle"

\* C18: whenever no update_stats call is under way, every counter is its
\* initial value plus the sum of the deltas passed for it, and the field
\* that is not a number holds one of the values passed for it (its initial
\* value when none was).
C18_UpdatesAdditive ==
    Quiescent =>
        /\ \A k \in CounterKeys : stats[k] = InitStats[k] + mon_sum[k]
        /\ mon_values # {} => stats.end_time \in mon_values
        /\ mon_values = {} => stats.end_time = InitStats.end_time

\* C18 witness: two deltas were added to one counter and a value was
\* stored, the monitor thread has computed the derived stats, and all
\* calls are over.
C18_Witness ==
    /\ Quiescent
    /\ mon_started = MaxUpdates
    /\ mon_sum["total_requests"] = 3
    /\ stats.total_requests = 3
    /\ stats.end_time \in mon_values
    /\ stats.elapsed_time = 1

\* what two filter_results calls retain when the call of thread `a` is
\* over before that of thread `b` begins
SequentialOutcome(a, b) ==
    LET first == filter_results(config, EmptyCache, conc_batch[a])
        second == filter_results(config, first.cache, conc_batch[b])
    IN Elements(first.out) \cup Elements(second.out)

\* what the calls of the threads have returned
Retained == UNION {Elements(conc_unique[t]) : t \in Threads}

\* C19 (as claimed): when the concurrent filter_results calls are over, the
\* results they retained are those of one of the sequential executions of
\* the same batches.
C19_ConcurrentSubmitSerializable ==
    (\A t \in Threads : conc_pc[t] = "done") =>
        \E a, b \in Threads : a # b /\ Retained = SequentialOutcome(a, b)

(***************************************************************************)
(* Properties of the frontier: the visited set and the life of a Target.   *)
(***************************************************************************)
\* the URLs that wait in the scan queue, and those handed to a _scan_url
\* call that has not been collected
QueuedUrls == {scan_queue[i][1] : i \in 1..Len(scan_queue)}

InFlightUrls == {f.url : f \in Elements(futures)}

\* C21 (as claimed): every URL that is in the scan queue or in flight is a
\* member of the visited set.
C21_QueuedOrInFlightAreVisited ==
    (QueuedUrls \cup InFlightUrls) \subseteq visited_urls

\* the state of the i-th Target put on the queue of the current scan_target:
\* 0 Queued, 1 InFlight (handed to a _scan_url call that has not ended),
\* 2 Completed or Failed (the call returned or raised)
TargetRank(i) ==
    IF i > Len(dequeued) THEN 0
    ELSE IF workers[i].st = "running" THEN 1
    ELSE 2

\* every Target of the current scan_target was handed out and its call ended
AllProcessed == \A i \in 1..Len(enqueued) : TargetRank(i) = 2

\* C22: the Targets are taken off the queue in the order they were put on
\* it, each by one _scan_url call of its own; a Target never changes and
\* never moves backwards (Queued, InFlight, then Completed or Failed for
\* good); and a scan_target that has begun returns, with every Target it put
\* on the queue processed.
C22_TargetLifecycle ==
    /\ [](/\ Len(dequeued) <= Len(enqueued)
          /\ DOMAIN workers = 1..Len(dequeued)
          /\ \A i \in 1..Len(dequeued) :
                dequeued[i] = <<enqueued[i].url, enqueued[i].depth>>)
    /\ [][pc # "next_target" =>
              \A i \in 1..Len(enqueued) :
                  /\ i <= Len(enqueued') /\ enqueued'[i] = enqueued[i]
                  /\ TargetRank(i)' >= TargetRank(i)
                  /\ TargetRank(i) = 2 => workers'[i].st = workers[i].st]_vars
    /\ (pc = "loop") ~> (pc \in {"next_target", "done"} /\ AllProcessed)

\* C22 witness: a scan_target has returned that put three Targets on its
\* queue, by seeding and by recursion; one of them failed and the others
\* completed.
C22_Witness ==
    /\ pc = "next_target"
    /\ Len(enqueued) >= 3
    /\ AllProcessed
    /\ \E i, j \in 1..Len(enqueued) :
          /\ workers[i].st = "raised"
          /\ workers[j].st = "done"
          /\ ~enqueued[j].seed

\* the hrefs of a result that resolve to `url`
LinksTo(r, url) ==
    {i \in 1..Len(r.content.hrefs) : resolve_href(r.url, r.content.hrefs[i]) = url}

\* C23: a pair was put on the queue at a depth above 0 only by recursion:
\* recursion is on, the Target whose results were searched had a depth below
\* max_depth, and one of its results has a recursion-eligible status code,
\* holds a link to the URL, and has the network location of the URL.  The
\* queue and the workers hold nothing that was not put on the queue so.
C23_RecursionGuard ==
    /\ \A i \in 1..Len(enqueued) :
          /\ enqueued[i].seed <=> enqueued[i].depth = 0
          /\ ~enqueued[i].seed =>
                /\ config.recursive
                /\ enqueued[i].parent_depth < config.max_depth
                /\ dequeued[enqueued[i].parent][2] = enqueued[i].parent_depth
                /\ \E r \in Elements(workers[enqueued[i].parent].value) :
                      /\ r.status_code \in config.recursion_status_codes
                      /\ LinksTo(r, enqueued[i].url) # {}
                      /\ enqueued[i].url.netloc = r.url.netloc
    /\ \A q \in Elements(scan_queue) \cup Elements(dequeued) :
          \E i \in 1..Len(enqueued) : q = <<enqueued[i].url, enqueued[i].depth>>

\* C23 witness: a scan that recurses on redirects only has ended.  A 301
\* result of the seed held a link of its own site, which was enqueued, and a
\* link to another site, which was not; the 200 result found under the
\* enqueued link, below max_depth, held a link that was not enqueued.
C23_Witness ==
    /\ pc = "next_target"
    /\ config.recursion_status_codes = {301}
    /\ Len(enqueued) = 2 /\ Len(dequeued) = 2
    /\ enqueued[2].depth < config.max_depth
    /\ \E r \in Elements(workers[1].value) :
          /\ r.status_code = 301
          /\ LinksTo(r, enqueued[2].url) # {}
          /\ LinksTo(r, UrlX) # {}
          /\ UrlX \notin visited_urls
    /\ \E r \in Elements(workers[2].value) :
          /\ r.status_code = 200
          /\ LinksTo(r, UrlA) # {}
          /\ UrlA \notin visited_urls

(***************************************************************************)
(* Properties of the classification step and of the crawler.               *)
(***************************************************************************)
\* the fields of a result that the probe wrote
ProbeFields == {"url", "status_code", "content_length", "content"}

\* C24 (as claimed): classification leaves the fields of the raw result as
\* the probe produced them: every classified result of a _scan_url call has
\* the url, the status code, the content length and the body of the raw
\* result it was made from.
C24_ClassificationPreservesFields ==
    \A id \in DOMAIN workers :
        workers[id].st = "done" =>
            /\ Len(workers[id].classified) = Len(workers[id].raw)
            /\ \A i \in 1..Len(workers[id].raw) : \A k \in ProbeFields :
                  workers[id].classified[i][k] = workers[id].raw[i][k]

\* C25 (as claimed): the crawler's visited set never holds more than 1000
\* URLs, whatever calls of Crawler.scan were made, concurrent ones included.
C25_CrawlerVisitedBounded == Cardinality(crawl_visited) <= VisitedLimit

(***************************************************************************)
(* Properties of the content-equivalence table across calls.               *)
(***************************************************************************)
\* the content hashes of the results of a list
HashesOf(seq) == {calculate_content_hash(seq[i].content) : i \in 1..Len(seq)}

\* C26 (as claimed): the batches returned over the scan hold at most one
\* result per content hash: no two entries of the concatenated output have
\* the same normalized body.
C26_OneRepresentativePerClass ==
    \A i, j \in 1..Len(pipe_output) :
        calculate_content_hash(pipe_output[i].content)
            = calculate_content_hash(pipe_output[j].content) => i = j

\* C27 (as claimed): a replacement overwrites the previous representative
\* of the same content hash only, so no class loses its entry to a result of
\* another class: every content hash that entered the table in the last
\* call has a result in the list that call returned.
C27_NoCrossClassDisplacement ==
    pipe_calls > 0 =>
        \A h \in HashesOf(remove_duplicates(interesting_of(config, pipe_batch))) :
            h \notin DOMAIN pipe_prev_cache => h \in HashesOf(pipe_returned)

(***************************************************************************)
(* Properties of the monitor's session and lock.                           *)
(***************************************************************************)
\* C28: at most one monitor thread is started and the start time is set at
\* most once, whatever the number of pool threads that call
\* start_monitoring; once a call of start_monitoring has returned, exactly
\* one thread was started and the start time was set exactly once.
C28_SingleMonitorThread ==
    /\ monitor_threads <= 1
    /\ start_writes <= 1
    /\ Started # {} =>
          /\ is_monitoring
          /\ monitor_threads = 1
          /\ start_writes = 1
          /\ stats.start_time = "now"

\* C28 witness: two pool threads are about to call start_monitoring at the
\* same time, and a third call is over; the monitor thread was started once.
C28_Witness ==
    /\ Cardinality(NotStarted \cap RunningIds) = 2
    /\ \E id \in Started : workers[id].st = "done"
    /\ monitor_threads = 1
    /\ start_writes = 1

\* C29 (as claimed): no thread waits for ever for the monitor lock: a
\* thread that waits for the lock does not hold it itself (the lock is not
\* reentrant, so such a thread waits for its own release), whatever the
\* registered callbacks do.
C29_LockProgress ==
    \A t \in Threads : ~(mon_pc[t] = "wait" /\ mon_lock = t)

(***************************************************************************)
(* Properties of scan_targets over several targets.                        *)
(***************************************************************************)
\* the URLs put on the queue of the current scan_target
EnqueuedUrls == {enqueued[i].url : i \in 1..Len(enqueued)}

\* C30 (as claimed): what scan_targets does for a target is what it does
\* when the target is scanned alone, where the visited set and the
\* content-equivalence table are empty when the scan of the target begins:
\* the call for the seed returns what the pipeline returns on an empty
\* table, and every recursion-eligible in-scope link of a returned result of
\* a Target below max_depth is put on the queue during the scan of this
\* target (it is not held back by an entry of the visited set that an
\* earlier target left).
C30_TargetIndependence ==
    /\ (1 \in DOMAIN workers /\ workers[1].st = "done") =>
          workers[1].value =
              prioritize_results(
                  filter_results(config, EmptyCache, workers[1].classified).out)
    /\ \A id \in Collected :
          (/\ workers[id].st = "done"
           /\ config.recursive
           /\ dequeued[id][2] < config.max_depth)
          => \A r \in Elements(workers[id].value) :
                should_recurse(config, r)
                    => \A u \in Elements(extract_new_urls(r)) : u \in EnqueuedUrls

====
